---- MODULE Spec2Model ----
(***************************************************************************)
(* A model of the contract-ABI codec (broxus/ton-labs-abi):                *)
(*   - the cell-packing layout engine (token/serialize.rs),                *)
(*   - the value/type check (token/mod.rs),                                *)
(*   - the function call assembler (function.rs),                          *)
(*   - the ABI description: signatures, IDs, version gating and the JSON   *)
(*     tokenizer (function.rs, param_type.rs, token/tokenizer.rs).         *)
(*                                                                         *)
(* A bitstring is a sequence of chunks [n, v, sym]: n bits holding the     *)
(* big-endian number v (sym = <<>>), or bits v .. v+n-1 of the opaque      *)
(* 512-bit value sym[1] (an Ed25519 signature).  Two bitstrings are        *)
(* compared with BitsEq, which aligns the chunk boundaries.                *)
(* A cell (or builder, or slice) is [bits, refs].                          *)
(***************************************************************************)
EXTENDS Integers, Sequences, FiniteSets, TLC

VARIABLES
    abi_version,    \* Function.abi_version, <<major, minor>>
    pc,             \* which operation has been applied last
    \* ---- the layout engine on its own (SpecPack)
    values,         \* the Vec<SerializedValue> handed to pack_cells_into_chain
    packed,         \* the result of pack_cells_into_chain
    \* ---- the function call assembler (Spec)
    func,           \* the Function descriptor: header, inputs, input_id
    header_tokens,  \* HashMap<String, TokenValue> given by the caller
    input,          \* the input tokens given by the caller
    internal,       \* the internal/external bit
    pair,           \* Option<(&Keypair, Option<i32>)>
    address,        \* Option<MsgAddressInt>
    now,            \* the wall clock read by get_default_value_for_header
    unsigned,       \* the result of create_unsigned_call
    reserve,        \* the reserve_sign argument of that call
    body,           \* the result of encode_input / fill_sign
    fill,           \* the arguments of the last fill_sign
    decoded,        \* the result of decode_input
    \* ---- the function IDs on the wire (SpecId)
    sent_id,        \* the function ID of the encoded call or answer
    answer,         \* the tokens handed to encode_internal_output
    response,       \* the result of encode_internal_output
    output,         \* the result of decode_output / decode_output_partial
    \* ---- the ABI description (SpecAbi)
    serde_function, \* the SerdeFunction handed to from_serde
    header_params,  \* the header params handed to from_serde
    function_hash,  \* the four leading bytes of the SHA-256 of the signature
    checked_type,   \* the ParamType argument of type_check / is_supported
    token_value,    \* the TokenValue receiver of type_check
    declared,       \* the params argument of tokenize_optional_params
    json_values,    \* the serde_json::Value argument of tokenize_optional_params
    result          \* what the operation returned

idVars == <<sent_id, answer, response, output>>
abiVars == <<serde_function, header_params, function_hash, checked_type, token_value, declared,
             json_values, result>>

vars == <<abi_version, pc, values, packed, func, header_tokens, input, internal,
          pair, address, now, unsigned, reserve, body, fill, decoded, idVars, abiVars>>

-----------------------------------------------------------------------------
(* ABI versions: contract.rs orders AbiVersion by (major, minor).          *)

ABI_VERSION_1_0 == <<1, 0>>
ABI_VERSION_2_0 == <<2, 0>>
ABI_VERSION_2_1 == <<2, 1>>
ABI_VERSION_2_2 == <<2, 2>>
ABI_VERSION_2_3 == <<2, 3>>
ABI_VERSION_2_4 == <<2, 4>>

Versions == {ABI_VERSION_1_0, ABI_VERSION_2_0, ABI_VERSION_2_1,
             ABI_VERSION_2_2, ABI_VERSION_2_3, ABI_VERSION_2_4}

VGe(a, b) == a[1] > b[1] \/ (a[1] = b[1] /\ a[2] >= b[2])

-----------------------------------------------------------------------------
(* Bitstrings.                                                             *)

RECURSIVE Pow2(_)
Pow2(k) == IF k = 0 THEN 1 ELSE 2 * Pow2(k - 1)

Chunk(n, v) == IF n = 0 THEN <<>> ELSE <<[n |-> n, v |-> v, sym |-> <<>>]>>
SymChunk(n, s) == <<[n |-> n, v |-> 0, sym |-> <<s>>]>>

RECURSIVE BitLen(_)
BitLen(bs) == IF bs = <<>> THEN 0 ELSE Head(bs).n + BitLen(Tail(bs))

\* the first k bits and the last c.n - k bits of chunk c, 0 < k < c.n
ChunkHi(c, k) ==
    IF c.sym # <<>> THEN [n |-> k, v |-> c.v, sym |-> c.sym]
    ELSE [n |-> k, sym |-> <<>>,
          v |-> IF c.n - k > 30 THEN 0 ELSE c.v \div Pow2(c.n - k)]
ChunkLo(c, k) ==
    IF c.sym # <<>> THEN [n |-> c.n - k, v |-> c.v + k, sym |-> c.sym]
    ELSE [n |-> c.n - k, sym |-> <<>>,
          v |-> IF c.n - k > 30 THEN c.v ELSE c.v % Pow2(c.n - k)]

RECURSIVE TakeBits(_, _)
TakeBits(bs, k) ==
    IF k = 0 \/ bs = <<>> THEN <<>>
    ELSE IF Head(bs).n <= k THEN <<Head(bs)>> \o TakeBits(Tail(bs), k - Head(bs).n)
    ELSE <<ChunkHi(Head(bs), k)>>

RECURSIVE DropBits(_, _)
DropBits(bs, k) ==
    IF k = 0 \/ bs = <<>> THEN bs
    ELSE IF Head(bs).n <= k THEN DropBits(Tail(bs), k - Head(bs).n)
    ELSE <<ChunkLo(Head(bs), k)>> \o Tail(bs)

RECURSIVE BitsEq(_, _)
BitsEq(a, b) ==
    IF a = <<>> \/ b = <<>> THEN a = <<>> /\ b = <<>>
    ELSE LET x == Head(a)
             y == Head(b)
         IN IF x.n = y.n THEN x = y /\ BitsEq(Tail(a), Tail(b))
            ELSE IF x.n < y.n
                 THEN x = ChunkHi(y, x.n)
                      /\ BitsEq(Tail(a), <<ChunkLo(y, x.n)>> \o Tail(b))
                 ELSE y = ChunkHi(x, y.n)
                      /\ BitsEq(<<ChunkLo(x, y.n)>> \o Tail(a), Tail(b))

\* the number a literal bitstring holds (its leading bits beyond the value are 0)
RECURSIVE BitsVal(_, _)
BitsVal(bs, acc) ==
    IF bs = <<>> THEN acc
    ELSE BitsVal(Tail(bs), IF acc = 0 THEN Head(bs).v
                           ELSE acc * Pow2(Head(bs).n) + Head(bs).v)

IsLiteral(bs) == \A i \in 1..Len(bs) : bs[i].sym = <<>>

-----------------------------------------------------------------------------
(* Cells and builders (ton_types::BuilderData).                            *)

BitsCapacity == 1023
ReferencesCapacity == 4

EmptyCell == [bits |-> <<>>, refs |-> <<>>]
Cell(bits, refs) == [bits |-> bits, refs |-> refs]

bits_used(b) == BitLen(b.bits)
references_used(b) == Len(b.refs)
bits_free(b) == BitsCapacity - bits_used(b)
references_free(b) == ReferencesCapacity - references_used(b)

Ok(x) == [ok |-> TRUE, val |-> x]
Err(e) == [ok |-> FALSE, err |-> e]

\* an append that puts the appended builder first
append_builder_reversed(b, other) ==
    IF bits_used(b) + bits_used(other) > BitsCapacity
       \/ references_used(b) + references_used(other) > ReferencesCapacity
    THEN Err("CellOverflow")
    ELSE Ok(Cell(other.bits \o b.bits, other.refs \o b.refs))

\* BuilderData::append_builder: fails when the bits or the references overflow
append_builder(b, other) ==
    IF bits_used(b) + bits_used(other) > BitsCapacity
       \/ references_used(b) + references_used(other) > ReferencesCapacity
    THEN Err("CellOverflow")
    ELSE Ok(Cell(b.bits \o other.bits, b.refs \o other.refs))

\* BuilderData::prepend_builder
prepend_builder(b, other) == append_builder(other, b)

\* BuilderData::checked_append_reference / checked_prepend_reference
checked_append_reference(b, cell) ==
    IF references_used(b) >= ReferencesCapacity THEN Err("CellOverflow")
    ELSE Ok(Cell(b.bits, Append(b.refs, cell)))
checked_prepend_reference(b, cell) ==
    IF references_used(b) >= ReferencesCapacity THEN Err("CellOverflow")
    ELSE Ok(Cell(b.bits, <<cell>> \o b.refs))

RECURSIVE CellEq(_, _)
CellEq(a, b) ==
    /\ BitsEq(a.bits, b.bits)
    /\ Len(a.refs) = Len(b.refs)
    /\ \A i \in 1..Len(a.refs) : CellEq(a.refs[i], b.refs[i])

-----------------------------------------------------------------------------
(* SerializedValue and the chain packing.                                  *)

SerializedValue(data, mb, mr) == [data |-> data, max_bits |-> mb, max_refs |-> mr]

\* impl From<BuilderData> for SerializedValue
FromBuilder(data) == SerializedValue(data, bits_used(data), references_used(data))

RECURSIVE get_remaining(_, _, _)
get_remaining(vals, from, v) ==
    IF from > Len(vals) THEN <<0, 0>>
    ELSE LET r == get_remaining(vals, from + 1, v)
         IN IF VGe(v, ABI_VERSION_2_2)
            THEN <<r[1] + vals[from].max_refs, r[2] + vals[from].max_bits>>
            ELSE <<r[1] + references_used(vals[from].data),
                   r[2] + bits_used(vals[from].data)>>

\* a strict fit that never looks ahead at the values that follow
StrictFitNoLookahead(v, rest, value_bits, remaining_bits) == v # ABI_VERSION_1_0

\* a strict fit that looks ahead under every ABI version
StrictFitAnyVersion(v, rest, value_bits, remaining_bits) ==
    rest[1] = 0 /\ rest[2] + value_bits <= remaining_bits

\* a strict fit that looks at the references that follow only
StrictFitNoBits(v, rest, value_bits, remaining_bits) ==
    v # ABI_VERSION_1_0 /\ rest[1] = 0

\* a strict fit that always puts the value in the current cell
StrictFitAlways(v, rest, value_bits, remaining_bits) == TRUE

\* the strict-fit decision of pack_cells_into_chain: TRUE puts the value in the
\* current cell
StrictFitInline(v, rest, value_bits, remaining_bits) ==
    v # ABI_VERSION_1_0 /\ rest[1] = 0 /\ rest[2] + value_bits <= remaining_bits

\* one turn of the loop of pack_cells_into_chain on the i-th value: the list
\* packed_cells after it, or the error of append_builder
PackOne(vals, i, cells, v) ==
    LET value == vals[i]
        builder == cells[Len(cells)]
        new22 == VGe(v, ABI_VERSION_2_2)
        remaining_bits == IF new22 THEN BitsCapacity - builder.max_bits
                          ELSE bits_free(builder.data)
        remaining_refs == IF new22 THEN ReferencesCapacity - builder.max_refs
                          ELSE references_free(builder.data)
        value_bits == IF new22 THEN value.max_bits ELSE bits_used(value.data)
        value_refs == IF new22 THEN value.max_refs ELSE references_used(value.data)
        app == append_builder(builder.data, value.data)
        joined == [cells EXCEPT ![Len(cells)] =
                      SerializedValue(app.val, builder.max_bits + value.max_bits,
                                      builder.max_refs + value.max_refs)]
    IN IF remaining_bits < value_bits \/ remaining_refs < value_refs
       THEN Ok(Append(cells, value))
       ELSE IF value_refs > 0 /\ remaining_refs = value_refs
                /\ ~StrictFitInline(v, get_remaining(vals, i + 1, v),
                                    value_bits, remaining_bits)
       THEN Ok(Append(cells, value))
       ELSE IF app.ok THEN Ok(joined)
       ELSE app

RECURSIVE PackLoop(_, _, _, _)

\* the turns that follow a turn
PackRest(vals, i, one, v) ==
    IF ~one.ok THEN one ELSE PackLoop(vals, i + 1, one.val, v)

\* the loop of pack_cells_into_chain from the i-th value on: the list
\* packed_cells, or the error of append_builder
PackLoop(vals, i, cells, v) ==
    IF i > Len(vals) THEN Ok(cells)
    ELSE PackRest(vals, i, PackOne(vals, i, cells, v), v)

\* the final reduce: each cell becomes the last reference of its predecessor
RECURSIVE LinkChain(_, _, _)
LinkChain(cells, i, acc) ==
    IF i = 0 THEN Ok(acc)
    ELSE LET r == checked_append_reference(cells[i].data, acc)
         IN IF r.ok THEN LinkChain(cells, i - 1, r.val) ELSE Err("panic")

\* the reduce of the packed cells, when the loop did not fail
LinkPacked(p) ==
    IF ~p.ok THEN p
    ELSE LinkChain(p.val, Len(p.val) - 1, p.val[Len(p.val)].data)

\* packed_cells before the first turn
FirstCell == <<SerializedValue(EmptyCell, 0, 0)>>

\* packed_cells before the linking
PackedCells(vals, v) == PackLoop(vals, 1, FirstCell, v)

pack_cells_into_chain(vals, v) == LinkPacked(PackedCells(vals, v))

-----------------------------------------------------------------------------
(* Types (param_type.rs) and values (token/mod.rs).                         *)
(* A u32 is kept as its two 16-bit halves <<hi, lo>>; the other numbers are *)
(* integers.  An address is AddrNone or a standard address.                 *)

TUint(n) == [k |-> "Uint", size |-> n]
TInt(n) == [k |-> "Int", size |-> n]
TBool == [k |-> "Bool"]
TCell == [k |-> "Cell"]
TAddress == [k |-> "Address"]
TTime == [k |-> "Time"]
TExpire == [k |-> "Expire"]
TPublicKey == [k |-> "PublicKey"]
TTuple(params) == [k |-> "Tuple", params |-> params]
TVarUint(n) == [k |-> "VarUint", size |-> n]
TVarInt(n) == [k |-> "VarInt", size |-> n]
TArray(inner) == [k |-> "Array", inner |-> inner]
TFixedArray(inner, n) == [k |-> "FixedArray", inner |-> inner, size |-> n]
TMap(key, value) == [k |-> "Map", key |-> key, value |-> value]
TAddressStd == [k |-> "AddressStd"]
TBytes == [k |-> "Bytes"]
TFixedBytes(n) == [k |-> "FixedBytes", size |-> n]
TString == [k |-> "String"]
TToken == [k |-> "Token"]
TOptional(inner) == [k |-> "Optional", inner |-> inner]
TRef(inner) == [k |-> "Ref", inner |-> inner]

Param(name, kind) == [name |-> name, kind |-> kind]
Token(name, value) == [name |-> name, value |-> value]

VUint(number, size) == [t |-> "Uint", number |-> number, size |-> size]
VInt(number, size) == [t |-> "Int", number |-> number, size |-> size]
VBool(b) == [t |-> "Bool", b |-> b]
VCell(c) == [t |-> "Cell", cell |-> c]
VAddress(a) == [t |-> "Address", addr |-> a]
VTime(x) == [t |-> "Time", time |-> x]
VExpire(x) == [t |-> "Expire", expire |-> x]
VPublicKey(key) == [t |-> "PublicKey", key |-> key]
VTuple(tokens) == [t |-> "Tuple", tokens |-> tokens]
VVarUint(size, number) == [t |-> "VarUint", size |-> size, number |-> number]
VVarInt(size, number) == [t |-> "VarInt", size |-> size, number |-> number]
VArray(inner_type, tokens) == [t |-> "Array", inner_type |-> inner_type, tokens |-> tokens]
VFixedArray(inner_type, tokens) ==
    [t |-> "FixedArray", inner_type |-> inner_type, tokens |-> tokens]
\* the values of a map are its <<key, value>> entries in the order of the keys
VMap(key_type, value_type, entries) ==
    [t |-> "Map", key_type |-> key_type, value_type |-> value_type, values |-> entries]
VAddressStd(a) == [t |-> "AddressStd", addr |-> a]
VBytes(arr) == [t |-> "Bytes", arr |-> arr]
VFixedBytes(arr) == [t |-> "FixedBytes", arr |-> arr]
VString(str) == [t |-> "String", str |-> str]
VToken(grams) == [t |-> "Token", grams |-> grams]
\* the value of an optional is <<>> (None) or <<v>> (Some(v))
VOptional(opt_type, opt_value) ==
    [t |-> "Optional", opt_type |-> opt_type, opt_value |-> opt_value]
VRef(value) == [t |-> "Ref", value |-> value]

AddrNone == [tag |-> "none"]
AddrStd(wc, id) == [tag |-> "std", wc |-> wc, id |-> id]

U32_MAX == <<65535, 65535>>

STD_ADDRESS_BIT_LENGTH == 267
MAX_HASH_MAP_INFO_ABOUT_KEY == 12

RECURSIVE type_check(_, _)
RECURSIVE types_check(_, _)

\* TokenValue::type_check
type_check(val, ty) ==
    CASE val.t = "Uint" -> ty = TUint(val.size)
      [] val.t = "Int" -> ty = TInt(val.size)
      [] val.t = "Bool" -> ty = TBool
      [] val.t = "Tuple" -> ty.k = "Tuple" /\ types_check(val.tokens, ty.params)
      [] val.t = "Cell" -> ty = TCell
      [] val.t = "Address" -> ty = TAddress
      [] val.t = "Time" -> ty = TTime
      [] val.t = "Expire" -> ty = TExpire
      [] val.t = "PublicKey" -> ty = TPublicKey
      [] val.t = "VarUint" -> ty = TVarUint(val.size)
      [] val.t = "VarInt" -> ty = TVarInt(val.size)
      [] val.t = "Array" ->
            /\ ty.k = "Array"
            /\ val.inner_type = ty.inner
            /\ \A i \in 1..Len(val.tokens) : type_check(val.tokens[i], ty.inner)
      [] val.t = "FixedArray" ->
            /\ ty.k = "FixedArray"
            /\ ty.size = Len(val.tokens)
            /\ val.inner_type = ty.inner
            /\ \A i \in 1..Len(val.tokens) : type_check(val.tokens[i], ty.inner)
      [] val.t = "Map" ->
            /\ ty.k = "Map"
            /\ val.key_type = ty.key
            /\ val.value_type = ty.value
            /\ \A i \in 1..Len(val.values) : type_check(val.values[i][2], ty.value)
      [] val.t = "AddressStd" -> ty = TAddressStd
      [] val.t = "Bytes" -> ty = TBytes
      [] val.t = "FixedBytes" -> ty = TFixedBytes(Len(val.arr))
      [] val.t = "String" -> ty = TString
      [] val.t = "Token" -> ty = TToken
      [] val.t = "Optional" ->
            /\ ty.k = "Optional"
            /\ ty.inner = val.opt_type
            /\ val.opt_value # <<>> => type_check(val.opt_value[1], ty.inner)
      [] val.t = "Ref" -> ty.k = "Ref" /\ type_check(val.value, ty.inner)

\* Token::types_check
types_check(tokens, params) ==
    /\ Len(params) = Len(tokens)
    /\ \A i \in 1..Len(params) :
          type_check(tokens[i].value, params[i].kind) /\ tokens[i].name = params[i].name

RECURSIVE get_param_type(_)
\* TokenValue::get_param_type
get_param_type(val) ==
    CASE val.t = "Uint" -> TUint(val.size)
      [] val.t = "Int" -> TInt(val.size)
      [] val.t = "Bool" -> TBool
      [] val.t = "Tuple" ->
            TTuple([i \in 1..Len(val.tokens) |->
                      Param(val.tokens[i].name, get_param_type(val.tokens[i].value))])
      [] val.t = "Cell" -> TCell
      [] val.t = "Address" -> TAddress
      [] val.t = "Time" -> TTime
      [] val.t = "Expire" -> TExpire
      [] val.t = "PublicKey" -> TPublicKey
      [] val.t = "VarUint" -> TVarUint(val.size)
      [] val.t = "VarInt" -> TVarInt(val.size)
      [] val.t = "Array" -> TArray(val.inner_type)
      [] val.t = "FixedArray" -> TFixedArray(val.inner_type, Len(val.tokens))
      [] val.t = "Map" -> TMap(val.key_type, val.value_type)
      [] val.t = "AddressStd" -> TAddressStd
      [] val.t = "Bytes" -> TBytes
      [] val.t = "FixedBytes" -> TFixedBytes(Len(val.arr))
      [] val.t = "String" -> TString
      [] val.t = "Token" -> TToken
      [] val.t = "Optional" -> TOptional(val.opt_type)
      [] val.t = "Ref" -> TRef(get_param_type(val.value))

\* BigInt::bits(x): the bits of the magnitude
RECURSIVE MagnitudeBits(_)
MagnitudeBits(x) ==
    IF x = 0 THEN 0
    ELSE IF x < 0 THEN MagnitudeBits(-x)
    ELSE 1 + MagnitudeBits(x \div 2)

\* TokenValue::varint_size_len: 8 - ((size - 1) as u8).leading_zeros()
varint_size_len(size) == MagnitudeBits((size - 1) % 256)

RECURSIVE max_refs_count(_, _)
RECURSIVE max_bit_size(_, _)

\* the folds of max_refs_count and max_bit_size over the params of a tuple
RECURSIVE SumRefs(_, _, _)
SumRefs(params, i, v) ==
    IF i > Len(params) THEN 0
    ELSE max_refs_count(params[i].kind, v) + SumRefs(params, i + 1, v)
RECURSIVE SumBits(_, _, _)
SumBits(params, i, v) ==
    IF i > Len(params) THEN 0
    ELSE max_bit_size(params[i].kind, v) + SumBits(params, i + 1, v)

\* a largeness test that counts the presence bit with the inner type
IsLargeWithPresence(bits, refs) ==
    bits + 1 >= BitsCapacity \/ refs + 1 > ReferencesCapacity

\* the comparison of TokenValue::is_large_optional on the envelope of the
\* inner type
IsLarge(bits, refs) == bits >= BitsCapacity \/ refs >= ReferencesCapacity

\* TokenValue::is_large_optional
is_large_optional(ty, v) == IsLarge(max_bit_size(ty, v), max_refs_count(ty, v))

\* TokenValue::max_refs_count
max_refs_count(ty, v) ==
    CASE ty.k \in {"Uint", "Int", "VarUint", "VarInt", "Bool", "Address",
                   "AddressStd", "Token", "Time", "Expire", "PublicKey"} -> 0
      [] ty.k = "FixedBytes" -> IF VGe(v, ABI_VERSION_2_4) THEN 0 ELSE 1
      [] ty.k \in {"Array", "FixedArray", "Cell", "String", "Map", "Bytes", "Ref"} -> 1
      [] ty.k = "Tuple" -> SumRefs(ty.params, 1, v)
      [] ty.k = "Optional" ->
            IF is_large_optional(ty.inner, v) THEN 1 ELSE max_refs_count(ty.inner, v)

\* TokenValue::max_bit_size
max_bit_size(ty, v) ==
    CASE ty.k \in {"Uint", "Int"} -> ty.size
      [] ty.k = "Bool" -> 1
      [] ty.k = "Cell" -> 0
      [] ty.k = "Address" -> 591
      [] ty.k = "Time" -> 64
      [] ty.k = "Expire" -> 32
      [] ty.k = "PublicKey" -> 257
      [] ty.k = "Tuple" -> SumBits(ty.params, 1, v)
      [] ty.k \in {"VarUint", "VarInt"} -> varint_size_len(ty.size) + (ty.size - 1) * 8
      [] ty.k = "Array" -> 33
      [] ty.k \in {"FixedArray", "Map"} -> 1
      [] ty.k = "AddressStd" -> 2 + (1 + 5 + 30) + 8 + 256
      [] ty.k = "FixedBytes" -> IF VGe(v, ABI_VERSION_2_4) THEN ty.size * 8 ELSE 0
      [] ty.k \in {"Bytes", "String", "Ref"} -> 0
      [] ty.k = "Token" -> 124
      [] ty.k = "Optional" ->
            IF is_large_optional(ty.inner, v) THEN 1
            ELSE 1 + max_bit_size(ty.inner, v)

\* TokenValue::get_default_value_for_header, reading the clock `clock`
get_default_value_for_header(ty, clock) ==
    CASE ty.k = "Time" -> Ok(VTime(clock))
      [] ty.k = "Expire" -> Ok(VExpire(U32_MAX))
      [] ty.k = "PublicKey" -> Ok(VPublicKey(<<>>))
      [] OTHER -> Err("InvalidInputData")

-----------------------------------------------------------------------------
(* The ABI description: type signatures and version gating (param_type.rs), *)
(* function signatures and function IDs (function.rs).  Strings are TLA+    *)
(* strings; the tuples of a description have at least one component         *)
(* (set_components rejects an empty list).                                  *)

\* a type gate that opens at ABI 2.1 for ref(T) as for optional(T)
is_supported_ref_2_1(ty, v) ==
    CASE ty.k \in {"Time", "Expire", "PublicKey"} -> VGe(v, ABI_VERSION_2_0)
      [] ty.k \in {"String", "Optional", "VarInt", "VarUint", "Ref"} ->
            VGe(v, ABI_VERSION_2_1)
      [] OTHER -> VGe(v, ABI_VERSION_1_0)

\* ParamType::is_supported
is_supported(ty, v) ==
    CASE ty.k \in {"Time", "Expire", "PublicKey"} -> VGe(v, ABI_VERSION_2_0)
      [] ty.k \in {"String", "Optional", "VarInt", "VarUint"} -> VGe(v, ABI_VERSION_2_1)
      [] ty.k = "Ref" -> VGe(v, ABI_VERSION_2_4)
      [] OTHER -> VGe(v, ABI_VERSION_1_0)

RECURSIVE type_signature(_)
\* the type signatures of params[i..] joined with ","
RECURSIVE JoinSignatures(_, _)
JoinSignatures(params, i) ==
    IF i > Len(params) THEN ""
    ELSE IF i = Len(params) THEN type_signature(params[i].kind)
    ELSE type_signature(params[i].kind) \o "," \o JoinSignatures(params, i + 1)

\* ParamType::type_signature
type_signature(ty) ==
    CASE ty.k = "Uint" -> "uint" \o ToString(ty.size)
      [] ty.k = "Int" -> "int" \o ToString(ty.size)
      [] ty.k = "VarUint" -> "varuint" \o ToString(ty.size)
      [] ty.k = "VarInt" -> "varint" \o ToString(ty.size)
      [] ty.k = "Bool" -> "bool"
      [] ty.k = "Tuple" -> "(" \o JoinSignatures(ty.params, 1) \o ")"
      [] ty.k = "Array" -> type_signature(ty.inner) \o "[]"
      [] ty.k = "FixedArray" ->
            type_signature(ty.inner) \o "[" \o ToString(ty.size) \o "]"
      [] ty.k = "Cell" -> "cell"
      [] ty.k = "Map" ->
            "map(" \o type_signature(ty.key) \o "," \o type_signature(ty.value) \o ")"
      [] ty.k = "Address" -> "address"
      [] ty.k = "AddressStd" -> "address_std"
      [] ty.k = "Bytes" -> "bytes"
      [] ty.k = "FixedBytes" -> "fixedbytes" \o ToString(ty.size)
      [] ty.k = "String" -> "string"
      [] ty.k = "Token" -> "gram"
      [] ty.k = "Time" -> "time"
      [] ty.k = "Expire" -> "expire"
      [] ty.k = "PublicKey" -> "pubkey"
      [] ty.k = "Optional" -> "optional(" \o type_signature(ty.inner) \o ")"
      [] ty.k = "Ref" -> "ref(" \o type_signature(ty.inner) \o ")"

\* a signature that lists the header params under every version
HeaderInSignatureAlways(v) == TRUE

\* the header params are part of the signature
HeaderInSignature(v) == v[1] = 1

\* Function::get_function_signature
get_function_signature(f) ==
    f.name \o "("
        \o JoinSignatures(IF HeaderInSignature(f.abi_version)
                           THEN f.header \o f.inputs ELSE f.inputs, 1)
        \o ")(" \o JoinSignatures(f.outputs, 1) \o ")v" \o ToString(f.abi_version[1])

\* u32::from_be_bytes
from_be_bytes(bytes) == <<bytes[1] * 256 + bytes[2], bytes[3] * 256 + bytes[4]>>

\* Sha256 of the signature: the digest of a string is not computed; the model
\* takes the four leading bytes of the digest of this signature as `head`
Sha256(signature, head) == [of |-> signature, head |-> head]

\* Function::calc_function_id
calc_function_id(signature, head) == from_be_bytes(Sha256(signature, head).head)

\* Function::get_function_id
get_function_id(f, head) == calc_function_id(get_function_signature(f), head)

\* an input ID that keeps the top bit of the function ID
InputIdUnmasked(id) == id

\* id & 0x7FFFFFFF
InputIdOf(id) == <<id[1] % 32768, id[2]>>

\* id | 0x80000000
OutputIdOf(id) == <<(id[1] % 32768) + 32768, id[2]>>

\* the IDs from_serde stores
WithIds(function, id, head) ==
    IF id # <<>>
    THEN [function EXCEPT !.input_id = id[1], !.output_id = id[1]]
    ELSE [function EXCEPT !.input_id = InputIdOf(get_function_id(function, head)),
                          !.output_id = OutputIdOf(get_function_id(function, head))]

\* Function::from_serde
from_serde(v, serde_fn, hdr, head) ==
    WithIds([abi_version |-> v, name |-> serde_fn.name, header |-> hdr,
             inputs |-> serde_fn.inputs, outputs |-> serde_fn.outputs,
             input_id |-> <<0, 0>>, output_id |-> <<0, 0>>],
            serde_fn.id, head)

-----------------------------------------------------------------------------
(* The per-value writers (token/serialize.rs).                              *)

\* BigInt::to_signed_bytes_be(x).len(): the shortest two's complement
RECURSIVE SignedBytesLen(_, _)
SignedBytesLen(x, len) ==
    IF -Pow2(8 * len - 1) <= x /\ x < Pow2(8 * len - 1) THEN len
    ELSE SignedBytesLen(x, len + 1)

\* a width check that lets every number through
IntFitsAlways(number, size) == TRUE

\* a width check that counts the sign bit of a signed number
IntFitsWithSign(number, size) == MagnitudeBits(number) < size

\* the width check of write_int
IntFits(number, size) == MagnitudeBits(number) <= size

\* TokenValue::write_int
write_int(number, size) ==
    LET len == SignedBytesLen(number, 1)
        vec_bits_length == len * 8
        vec == Chunk(vec_bits_length, number % Pow2(vec_bits_length))
    IN IF size > vec_bits_length
       THEN LET dif == size - vec_bits_length
                padding == IF number < 0 THEN Chunk(dif, Pow2(dif) - 1)
                           ELSE Chunk(dif, 0)
            IN Ok(Cell(padding \o vec, <<>>))
       ELSE IF ~IntFits(number, size) THEN Err("InvalidData")
       ELSE Ok(Cell(DropBits(vec, vec_bits_length - size), <<>>))

\* TokenValue::write_uint
write_uint(number, size) == write_int(number, size)

\* TokenValue::write_bool
write_bool(b) == Ok(Cell(Chunk(1, IF b THEN 1 ELSE 0), <<>>))

\* TokenValue::write_cell
write_cell(c) == Ok(Cell(<<>>, <<c>>))

\* TokenValue::write_public_key
write_public_key(key) ==
    IF key # <<>> THEN Ok(Cell(Chunk(1, 1) \o Chunk(256, key[1]), <<>>))
    ELSE Ok(Cell(Chunk(1, 0), <<>>))

\* MsgAddress / MsgAddressInt::write_to_new_cell: addr_none$00, or
\* addr_std$10 anycast:nothing$0 workchain_id:int8 address:bits256
write_address(a) ==
    IF a.tag = "none" THEN Cell(Chunk(2, 0), <<>>)
    ELSE Cell(Chunk(2, 2) \o Chunk(1, 0) \o Chunk(8, a.wc) \o Chunk(256, a.id), <<>>)

\* u32::write_to_new_cell and u64::write_to_new_cell
write_u32(x) == Cell(Chunk(16, x[1]) \o Chunk(16, x[2]), <<>>)
write_u64(x) == Cell(Chunk(64, x), <<>>)

\* BigUint::to_bytes_be(x).len(): the bytes of the magnitude, one for zero
BytesLen(x) == IF x = 0 THEN 1 ELSE (MagnitudeBits(x) + 7) \div 8

\* a length prefix of one bit less
VarPrefixShort(size) == varint_size_len(size) - 1

\* the bits of the length prefix of write_varnumber
VarPrefix(size) == varint_size_len(size)

\* TokenValue::write_varnumber on the bytes of a number: their count len and
\* the number they hold
write_varnumber(len, number, size) ==
    IF number # 0
    THEN Ok(Cell(Chunk(VarPrefix(size), len)
                 \o Chunk(8 * len, number % Pow2(8 * len)), <<>>))
    ELSE Ok(Cell(Chunk(VarPrefix(size), 0), <<>>))

\* TokenValue::write_varint
write_varint(number, size) ==
    IF SignedBytesLen(number, 1) > size - 1 THEN Err("InvalidData")
    ELSE write_varnumber(SignedBytesLen(number, 1), number, size)

\* TokenValue::write_varuint
write_varuint(number, size) ==
    IF BytesLen(number) > size - 1 THEN Err("InvalidData")
    ELSE write_varnumber(BytesLen(number), number, size)

\* Grams::write_to_new_cell: a VarUInteger 16
write_grams(grams) == write_varuint(grams, 16)

\* builder.append_raw of the bytes data[from + 1 .. from + count]
RawBytes(data, from, count) ==
    IF count = 0 THEN <<>>
    ELSE SymChunk(8 * count, SubSeq(data, from + 1, from + count))

\* the bytes one cell of a chain of bytes holds
CellLen == BitsCapacity \div 8

Min(a, b) == IF a < b THEN a ELSE b

\* a first cut of min(cell_len, len) bytes under every version
FirstCutFull(len, v) == Min(CellLen, len)

\* the bytes bytes_to_cells cuts first, from the end of the data
FirstCut(len, v) ==
    IF v = ABI_VERSION_1_0 THEN Min(CellLen, len)
    ELSE IF len % CellLen = 0 THEN CellLen ELSE len % CellLen

\* the loop of bytes_to_cells: len bytes are left, the next cut takes
\* cell_capacity of them into the builder
RECURSIVE BytesLoop(_, _, _, _)
BytesLoop(data, len, cell_capacity, builder) ==
    IF len = 0 THEN builder
    ELSE LET left == len - cell_capacity
             filled == Cell(builder.bits \o RawBytes(data, left, cell_capacity),
                            builder.refs)
         IN IF left > 0
            THEN BytesLoop(data, left, Min(CellLen, left), Cell(<<>>, <<filled>>))
            ELSE filled

\* TokenValue::bytes_to_cells
bytes_to_cells(data, v) ==
    BytesLoop(data, Len(data), FirstCut(Len(data), v), EmptyCell)

\* TokenValue::write_bytes
write_bytes(data, v) == Ok(Cell(<<>>, <<bytes_to_cells(data, v)>>))

\* TokenValue::write_fixed_bytes
write_fixed_bytes(data, v) ==
    IF VGe(v, ABI_VERSION_2_4)
    THEN IF Len(data) * 8 > BitsCapacity THEN Err("InvalidData")
         ELSE Ok(Cell(RawBytes(data, 0, Len(data)), <<>>))
    ELSE write_bytes(data, v)

\* an optional that is always inlined
OptionalInlined(large, chain) ==
    IF ~chain.ok THEN chain
    ELSE prepend_builder(chain.val, Cell(Chunk(1, 1), <<>>))

\* the presence bit put before the inlined chain, or the chain in a reference
OptionalOf(large, chain) ==
    IF ~chain.ok THEN chain
    ELSE IF large THEN Ok(Cell(Chunk(1, 1), <<chain.val>>))
    ELSE prepend_builder(chain.val, Cell(Chunk(1, 1), <<>>))

\* the reference write_ref makes of the packed value
RefOf(chain) == IF ~chain.ok THEN chain ELSE Ok(Cell(<<>>, <<chain.val>>))

\* the serialized value of written data, with the envelope of its type
WithEnvelope(data, param_type, v) ==
    IF ~data.ok THEN data
    ELSE Ok(<<SerializedValue(data.val, max_bit_size(param_type, v),
                               max_refs_count(param_type, v))>>)

\* cells.append(...?): the values written so far and the ones that follow
Concat(one, rest) ==
    IF ~one.ok THEN one
    ELSE IF ~rest.ok THEN rest
    ELSE Ok(one.val \o rest.val)

RECURSIVE write_to_cells(_, _)
RECURSIVE write_all(_, _, _)
RECURSIVE write_optional(_, _, _)
RECURSIVE write_ref(_, _)
RECURSIVE write_array(_, _, _)
RECURSIVE write_fixed_array(_, _, _)
RECURSIVE write_map(_, _, _, _)

\* TokenValue::write_to_cells: the serialized values of one token value
write_to_cells(val, v) ==
    IF val.t = "Tuple" THEN write_all(val.tokens, 1, v)
    ELSE WithEnvelope(
            CASE val.t = "Uint" -> write_uint(val.number, val.size)
              [] val.t = "Int" -> write_int(val.number, val.size)
              [] val.t = "Bool" -> write_bool(val.b)
              [] val.t = "Cell" -> write_cell(val.cell)
              [] val.t = "Address" -> Ok(write_address(val.addr))
              [] val.t = "Time" -> Ok(write_u64(val.time))
              [] val.t = "Expire" -> Ok(write_u32(val.expire))
              [] val.t = "PublicKey" -> write_public_key(val.key)
              [] val.t = "VarUint" -> write_varuint(val.number, val.size)
              [] val.t = "VarInt" -> write_varint(val.number, val.size)
              [] val.t = "AddressStd" -> Ok(write_address(val.addr))
              [] val.t = "Bytes" -> write_bytes(val.arr, v)
              [] val.t = "FixedBytes" -> write_fixed_bytes(val.arr, v)
              [] val.t = "String" -> write_bytes(val.str, v)
              [] val.t = "Token" -> write_grams(val.grams)
              [] val.t = "Optional" -> write_optional(val.opt_type, val.opt_value, v)
              [] val.t = "Ref" -> write_ref(val.value, v)
              [] val.t = "Array" -> write_array(val.inner_type, val.tokens, v)
              [] val.t = "FixedArray" -> write_fixed_array(val.inner_type, val.tokens, v)
              [] val.t = "Map" -> write_map(val.key_type, val.value_type, val.values, v),
            get_param_type(val), v)

\* the loops `for token in tokens { cells.append(token.value.write_to_cells()?) }`
write_all(tokens, i, v) ==
    IF i > Len(tokens) THEN Ok(<<>>)
    ELSE Concat(write_to_cells(tokens[i].value, v), write_all(tokens, i + 1, v))

\* the packing of the cells given and the values written
PackWritten(cells, w, v) ==
    IF ~w.ok THEN w ELSE pack_cells_into_chain(cells \o w.val, v)

\* TokenValue::pack_values_into_chain
pack_values_into_chain(tokens, cells, v) == PackWritten(cells, write_all(tokens, 1, v), v)

\* TokenValue::pack_into_chain
pack_into_chain(val, v) == PackWritten(<<>>, write_to_cells(val, v), v)

\* TokenValue::write_optional
write_optional(param_type, value, v) ==
    IF value # <<>>
    THEN OptionalOf(is_large_optional(param_type, v), pack_into_chain(value[1], v))
    ELSE Ok(Cell(Chunk(1, 0), <<>>))

\* TokenValue::write_ref
write_ref(value, v) == RefOf(pack_into_chain(value, v))

\* one more entry of a dictionary, after the `?` on its key and its value
PushEntry(key, one, rest) ==
    IF ~one.ok THEN one
    ELSE IF ~rest.ok THEN rest
    ELSE Ok(<<<<key, one.val>>>> \o rest.val)

\* the root of a HashmapE of the given entries: the layout of its cells is
\* the library's, so the root is held as a symbol
HashmapRoot(key_len, value_in_ref, entries) ==
    Cell(SymChunk(key_len, <<"hashmap", value_in_ref, entries>>), <<>>)

\* HashmapE::write_to on an empty builder: hme_empty$0 or hme_root$1 ^root
HashmapWritten(key_len, value_in_ref, entries) ==
    IF ~entries.ok THEN entries
    ELSE IF entries.val = <<>> THEN Ok(Cell(Chunk(1, 0), <<>>))
    ELSE Ok(Cell(Chunk(1, 1), <<HashmapRoot(key_len, value_in_ref, entries.val)>>))

\* TokenValue::map_value_in_ref
map_value_in_ref(key_len, value_len) ==
    MAX_HASH_MAP_INFO_ABOUT_KEY + key_len + value_len > 1023

\* the loop of TokenValue::put_array_into_dictionary: the items from the i-th
\* on, each packed into a chain under its index
RECURSIVE ArrayEntries(_, _, _)
ArrayEntries(array, i, v) ==
    IF i > Len(array) THEN Ok(<<>>)
    ELSE PushEntry(i - 1, pack_into_chain(array[i], v), ArrayEntries(array, i + 1, v))

\* TokenValue::put_array_into_dictionary, written
put_array_into_dictionary(param_type, array, v) ==
    HashmapWritten(32, map_value_in_ref(32, max_bit_size(param_type, v)),
                   ArrayEntries(array, 1, v))

\* the length of an array before its dictionary
WithLength(len, dict) ==
    IF ~dict.ok THEN dict
    ELSE Ok(Cell(Chunk(32, len) \o dict.val.bits, dict.val.refs))

\* TokenValue::write_array
write_array(param_type, value, v) ==
    WithLength(Len(value), put_array_into_dictionary(param_type, value, v))

\* TokenValue::write_fixed_array
write_fixed_array(param_type, value, v) ==
    put_array_into_dictionary(param_type, value, v)

\* TokenValue::get_map_key_size
get_map_key_size(param_type) ==
    CASE param_type.k \in {"Int", "Uint"} -> Ok(param_type.size)
      [] param_type.k \in {"Address", "AddressStd"} -> Ok(STD_ADDRESS_BIT_LENGTH)
      [] OTHER -> Err("InvalidData")

\* the key of a map entry, written: one serialized value, of 267 bits for an
\* address
MapKeyWritten(key_type, key_vec) ==
    IF ~key_vec.ok THEN key_vec
    ELSE IF Len(key_vec.val) # 1 THEN Err("InvalidData")
    ELSE IF key_type = TAddress
            /\ bits_used(key_vec.val[1].data) # STD_ADDRESS_BIT_LENGTH
    THEN Err("InvalidData")
    ELSE Ok(key_vec.val[1].data.bits)

\* one entry of a map after the `?` on its key
MapEntry(key, value, rest, v) ==
    IF ~key.ok THEN key ELSE PushEntry(key.val, pack_into_chain(value, v), rest)

\* the loop of TokenValue::map_token_to_hashmap_e over the entries of the map
RECURSIVE MapEntries(_, _, _, _)
MapEntries(key_type, entries, i, v) ==
    IF i > Len(entries) THEN Ok(<<>>)
    ELSE MapEntry(MapKeyWritten(key_type, write_to_cells(entries[i][1], v)),
                  entries[i][2], MapEntries(key_type, entries, i + 1, v), v)

\* the dictionary of a map whose keys have key_len bits
MapOfKeyLen(key_len, key_type, value_type, entries, v) ==
    IF ~key_len.ok THEN key_len
    ELSE HashmapWritten(key_len.val,
                        map_value_in_ref(key_len.val, max_bit_size(value_type, v)),
                        MapEntries(key_type, entries, 1, v))

\* TokenValue::write_map
write_map(key_type, value_type, entries, v) ==
    MapOfKeyLen(get_map_key_size(key_type), key_type, value_type, entries, v)

-----------------------------------------------------------------------------
(* The JSON tokenizer (token/tokenizer.rs) for the unsigned integers and    *)
(* the booleans.  A serde_json::Value is a record tagged with j; the map of *)
(* an object is a function of its keys.                                     *)

JNull == [j |-> "null"]
JBool(b) == [j |-> "bool", b |-> b]
JNumber(n) == [j |-> "number", n |-> n]
JString(str) == [j |-> "string", s |-> str]
JArray(items) == [j |-> "array", items |-> items]
JObject(map) == [j |-> "object", map |-> map]

\* the widest integer type of the model
MaxWidth == 9

\* the numbers whose decimal strings the model parses, and their strings
Parsed == (-2 * Pow2(MaxWidth))..(2 * Pow2(MaxWidth))
DecimalOf == [x \in Parsed |-> ToString(x)]

\* BigInt::parse_bytes(string, 10) on the strings of the model: the number a
\* decimal string denotes, or nothing
ParseDecimal(string) ==
    IF \E x \in Parsed : DecimalOf[x] = string
    THEN <<CHOOSE x \in Parsed : DecimalOf[x] = string>>
    ELSE <<>>

\* BigUint::parse_bytes(string, 16) on the hexadecimal strings of the model
ParseHex(string) ==
    CASE string = "0x10" -> <<16>>
      [] string = "0x7f" -> <<127>>
      [] string = "0x80" -> <<128>>
      [] string = "0xff" -> <<255>>
      [] string = "0x100" -> <<256>>
      [] OTHER -> <<>>

\* read_uint_string, on the strings of the model: a decimal or 0x-hexadecimal
\* number, or nothing
read_uint_string(string) ==
    IF ParseHex(string) # <<>> THEN ParseHex(string)
    ELSE IF ParseDecimal(string) # <<>> /\ ParseDecimal(string)[1] >= 0
    THEN ParseDecimal(string)
    ELSE <<>>

\* read_int_string: a decimal, 0x-hexadecimal or -0x-hexadecimal number
read_int_string(string) ==
    CASE string = "-0x80" -> <<-128>>
      [] string = "-0x81" -> <<-129>>
      [] ParseHex(string) # <<>> -> ParseHex(string)
      [] OTHER -> ParseDecimal(string)

\* Tokenizer::read_int
json_read_int(value) ==
    IF value.j = "number" THEN Ok(value.n)
    ELSE IF value.j = "string"
    THEN IF read_int_string(value.s) # <<>> THEN Ok(read_int_string(value.s)[1])
         ELSE Err("InvalidParameterValue")
    ELSE Err("WrongDataFormat")

\* a width check without the correction for -2^k
check_int_size_plain(number, size) == MagnitudeBits(number) < size

\* Tokenizer::check_int_size
check_int_size(number, size) ==
    IF number < 0 /\ MagnitudeBits(number) # MagnitudeBits(number + 1)
    THEN MagnitudeBits(number) <= size
    ELSE MagnitudeBits(number) < size

\* the range check of tokenize_int
IntInRange(number, size) ==
    IF ~number.ok THEN number
    ELSE IF ~check_int_size(number.val, size) THEN Err("InvalidParameterValue")
    ELSE Ok([t |-> "Int", number |-> number.val, size |-> size])

\* Tokenizer::tokenize_int
tokenize_int(size, value) == IntInRange(json_read_int(value), size)

\* Tokenizer::read_uint
json_read_uint(value) ==
    IF value.j = "number" /\ value.n >= 0 THEN Ok(value.n)
    ELSE IF value.j = "string"
    THEN IF read_uint_string(value.s) # <<>> THEN Ok(read_uint_string(value.s)[1])
         ELSE Err("InvalidParameterValue")
    ELSE Err("WrongDataFormat")

\* Tokenizer::check_uint_size
check_uint_size(number, size) == MagnitudeBits(number) <= size

\* the range check of tokenize_uint
UintInRange(number, size) ==
    IF ~number.ok THEN number
    ELSE IF ~check_uint_size(number.val, size) THEN Err("InvalidParameterValue")
    ELSE Ok([t |-> "Uint", number |-> number.val, size |-> size])

\* Tokenizer::tokenize_uint
tokenize_uint(size, value) == UintInRange(json_read_uint(value), size)

\* Tokenizer::tokenize_bool
tokenize_bool(value) ==
    CASE value.j = "bool" -> Ok([t |-> "Bool", b |-> value.b])
      [] value.j = "string" ->
            CASE value.s = "true" -> Ok([t |-> "Bool", b |-> TRUE])
              [] value.s = "false" -> Ok([t |-> "Bool", b |-> FALSE])
              [] OTHER -> Err("InvalidParameterValue")
      [] OTHER -> Err("WrongDataFormat")

\* MsgAddress::from_str on the strings of the model
address_from_str(string) ==
    CASE string = "0:01" -> <<AddrStd(0, 1)>>
      [] string = "" -> <<AddrNone>>
      [] OTHER -> <<>>

\* the range checks of tokenize_map_key_parameter on the number read
KeyInRange(kind, number, size) ==
    IF number = <<>> THEN Err("InvalidParameterValue")
    ELSE IF kind = "Int"
    THEN IF ~check_int_size(number[1], size + 1) THEN Err("InvalidParameterValue")
         ELSE Ok([t |-> "Int", number |-> number[1], size |-> size])
    ELSE IF ~check_uint_size(number[1], size + 1) THEN Err("InvalidParameterValue")
         ELSE Ok([t |-> "Uint", number |-> number[1], size |-> size])

\* Tokenizer::tokenize_map_key_parameter
tokenize_map_key_parameter(param, string) ==
    CASE param.k = "Int" -> KeyInRange("Int", read_int_string(string), param.size)
      [] param.k = "Uint" -> KeyInRange("Uint", read_uint_string(string), param.size)
      [] param.k = "Address" ->
            IF address_from_str(string) = <<>> THEN Err("WrongDataFormat")
            ELSE Ok([t |-> "Address", addr |-> address_from_str(string)[1]])
      [] OTHER -> Err("InvalidData")

\* Tokenizer::tokenize_parameter
tokenize_parameter(param, value) ==
    CASE param.k = "Uint" -> tokenize_uint(param.size, value)
      [] param.k = "Int" -> tokenize_int(param.size, value)
      [] param.k = "Bool" -> tokenize_bool(value)

\* map.remove(key) and tokens.insert(key, value)
MapRemove(map, key) == [k \in DOMAIN map \ {key} |-> map[k]]
MapInsert(map, key, value) ==
    [k \in DOMAIN map \cup {key} |-> IF k = key THEN value ELSE map[k]]

\* a check that lets the keys left in the map through
UnknownKeysIgnored(map) == FALSE

\* !map.is_empty(): the object holds keys no param has taken
UnknownKeys(map) == DOMAIN map # {}

RECURSIVE TokenizePresent(_, _, _, _)

\* the token of the i-th param inserted, and the params that follow
InsertToken(ps, i, map, tokens, tokenized) ==
    IF ~tokenized.ok THEN tokenized
    ELSE TokenizePresent(ps, i + 1, MapRemove(map, ps[i].name),
                         MapInsert(tokens, ps[i].name, tokenized.val))

\* the loop of tokenize_optional_params from the i-th param on, and the check
\* of the keys that are left
TokenizePresent(ps, i, map, tokens) ==
    IF i > Len(ps)
    THEN IF UnknownKeys(map) THEN Err("InvalidInputData") ELSE Ok(tokens)
    ELSE IF ps[i].name \in DOMAIN map
    THEN InsertToken(ps, i, map, tokens, tokenize_parameter(ps[i].kind, map[ps[i].name]))
    ELSE TokenizePresent(ps, i + 1, map, tokens)

\* Tokenizer::tokenize_optional_params
tokenize_optional_params(ps, json) ==
    IF json.j = "object" THEN TokenizePresent(ps, 1, json.map, <<>>)
    ELSE Err("InvalidInputData")

-----------------------------------------------------------------------------
(* The function call assembler (function.rs).                               *)
(* repr_hash is collision free: a hash is the cell it was taken of.  An     *)
(* Ed25519 signature is the pair of its signer and the data signed.         *)

SIGNATURE_LENGTH == 64
PUBLIC_KEY_LENGTH == 32

repr_hash(cell) == [repr_hash |-> cell]
HashEq(h1, h2) == CellEq(h1.repr_hash, h2.repr_hash)

\* an extension that drops the signature ID
extend_signature_drop_id(data, signature_id) == [prefix |-> <<>>, data |-> data]

\* signature.rs: extend_signature_with_id and sign_with_signature_id
extend_signature_with_id(data, signature_id) == [prefix |-> signature_id, data |-> data]
sign_with_signature_id(key, data, signature_id) ==
    [signer |-> key, signed |-> extend_signature_with_id(data, signature_id)]

\* the public half of a key pair
PublicOf(key) == key

\* the default of a header param, written
WriteDefault(dflt, v) == IF ~dflt.ok THEN dflt ELSE write_to_cells(dflt.val, v)

\* the value of one header param: the caller's token or the default
HeaderValue(param, tokens, clock, v) ==
    IF param.name \in DOMAIN tokens
    THEN IF ~type_check(tokens[param.name], param.kind)
         THEN Err("WrongParameterType")
         ELSE write_to_cells(tokens[param.name], v)
    ELSE WriteDefault(get_default_value_for_header(param.kind, clock), v)

\* the loop of Function::encode_header over the header params
RECURSIVE encode_header_params(_, _, _, _, _)
encode_header_params(header, i, tokens, clock, v) ==
    IF i > Len(header) THEN Ok(<<>>)
    ELSE Concat(HeaderValue(header[i], tokens, clock, v),
                encode_header_params(header, i + 1, tokens, clock, v))

\* the function ID before the header under every ABI version
IdFirstAlways(v) == TRUE

\* where the function ID goes: TRUE puts it before the header
IdFirst(v) == v[1] = 1

\* the function ID put before or after the header values
PlaceId(vec, id, v) ==
    IF ~vec.ok THEN vec
    ELSE IF IdFirst(v) THEN Ok(<<id>> \o vec.val)
    ELSE Ok(vec.val \o <<id>>)

\* Function::encode_header
encode_header(f, tokens, intern, v, clock) ==
    PlaceId(IF ~intern THEN encode_header_params(f.header, 1, tokens, clock, v)
            ELSE Ok(<<>>),
            FromBuilder(write_u32(f.input_id)), v)

\* a reservation of the presence bit alone
SignBitsUnreserved(v, reserve_sign) == IF v[1] = 1 THEN <<>> ELSE Chunk(1, 0)

\* the bits create_unsigned_call reserves for the signature and strips again
SignBits(v, reserve_sign) ==
    IF v[1] = 1 THEN <<>>
    ELSE IF reserve_sign
         THEN IF VGe(v, ABI_VERSION_2_3) THEN Chunk(max_bit_size(TAddress, v), 0)
              ELSE Chunk(1, 1) \o Chunk(SIGNATURE_LENGTH * 8, 0)
         ELSE Chunk(1, 0)

\* the address is never hashed
AddressInHashNever(v, intern, reserve_sign) == FALSE

\* the address is hashed for every external call of ABI >= 2.3
AddressInHashExternal(v, intern, reserve_sign) == VGe(v, ABI_VERSION_2_3) /\ ~intern

\* when create_unsigned_call hashes the destination address before the body
AddressInHash(v, intern, reserve_sign) == VGe(v, ABI_VERSION_2_3) /\ reserve_sign

\* the placeholder of the signature, the first value of an external call
SignValue(v, reserve_sign) ==
    SerializedValue(Cell(SignBits(v, reserve_sign),
                         IF v[1] = 1 THEN <<EmptyCell>> ELSE <<>>),
                    IF VGe(v, ABI_VERSION_2_3) THEN max_bit_size(TAddress, v)
                    ELSE 1 + SIGNATURE_LENGTH * 8,
                    IF v[1] = 1 THEN 1 ELSE 0)

\* the hash of the address followed by the body
HashWithAddress(with_address, builder) ==
    IF ~with_address.ok THEN with_address
    ELSE Ok([builder |-> builder, hash |-> repr_hash(with_address.val)])

\* the hash of the stripped body
HashCall(builder, intern, reserve_sign, addr, v) ==
    IF AddressInHash(v, intern, reserve_sign)
    THEN IF addr = <<>> THEN Err("AddressRequired")
         ELSE HashWithAddress(append_builder(write_address(addr[1]), builder), builder)
    ELSE Ok([builder |-> builder, hash |-> repr_hash(builder)])

\* delete reserved sign before hash
StripAndHash(chain, intern, reserve_sign, addr, v) ==
    LET remove_ref == ~intern /\ v[1] = 1
        remove_bits == IF intern THEN 0 ELSE BitLen(SignBits(v, reserve_sign))
    IN IF ~chain.ok THEN chain
       ELSE IF remove_ref /\ chain.val.refs = <<>> THEN Err("CellUnderflow")
       ELSE IF bits_used(chain.val) < remove_bits THEN Err("CellUnderflow")
       ELSE HashCall(Cell(DropBits(chain.val.bits, remove_bits),
                          IF remove_ref THEN Tail(chain.val.refs) ELSE chain.val.refs),
                     intern, reserve_sign, addr, v)

\* the call from the header on
CallFromHeader(hdr, inp, intern, reserve_sign, addr, v) ==
    IF ~hdr.ok THEN hdr
    ELSE StripAndHash(
            pack_values_into_chain(
                inp,
                IF intern THEN hdr.val ELSE <<SignValue(v, reserve_sign)>> \o hdr.val,
                v),
            intern, reserve_sign, addr, v)

\* Function::create_unsigned_call: Ok([builder, hash]) or the error
create_unsigned_call(f, tokens, inp, intern, reserve_sign, addr, v, clock) ==
    IF ~types_check(inp, f.inputs) THEN Err("WrongParameterType")
    ELSE CallFromHeader(encode_header(f, tokens, intern, v, clock),
                        inp, intern, reserve_sign, addr, v)

\* a signature block that carries the public key after the signature
SignBlockWithKey(signature, public_key) ==
    IF signature # <<>>
    THEN Chunk(1, 1) \o SymChunk(SIGNATURE_LENGTH * 8, signature[1])
         \o (IF public_key # <<>> THEN Chunk(PUBLIC_KEY_LENGTH * 8, public_key[1])
             ELSE <<>>)
    ELSE Chunk(1, 0)

\* the bits fill_sign puts in front of the body (ABI other than 1.0)
SignBlock(signature, public_key) ==
    IF signature # <<>>
    THEN Chunk(1, 1) \o SymChunk(SIGNATURE_LENGTH * 8, signature[1])
    ELSE Chunk(1, 0)

\* Function::fill_sign
fill_sign(v, signature, public_key, builder) ==
    IF v = ABI_VERSION_1_0
    THEN IF references_free(builder) = 0 THEN Err("InvalidInputData")
         ELSE IF signature # <<>>
         THEN checked_prepend_reference(builder,
                  Cell(SymChunk(SIGNATURE_LENGTH * 8, signature[1])
                       \o (IF public_key # <<>>
                           THEN Chunk(PUBLIC_KEY_LENGTH * 8, public_key[1])
                           ELSE <<>>), <<>>))
         ELSE checked_prepend_reference(builder, EmptyCell)
    ELSE prepend_builder(builder, Cell(SignBlock(signature, public_key), <<>>))

\* the signing and filling of encode_input
SignCall(call, intern, kp, v) ==
    IF ~call.ok THEN call
    ELSE IF intern THEN Ok(call.val.builder)
    ELSE IF kp # <<>>
    THEN fill_sign(v,
                   <<sign_with_signature_id(kp[1].key, call.val.hash,
                                            kp[1].signature_id)>>,
                   <<PublicOf(kp[1].key)>>, call.val.builder)
    ELSE fill_sign(v, <<>>, <<>>, call.val.builder)

\* Function::encode_input
encode_input(f, tokens, inp, intern, kp, addr, v, clock) ==
    SignCall(create_unsigned_call(f, tokens, inp, intern, kp # <<>>, addr, v, clock),
             intern, kp, v)

\* Function::encode_internal_output
encode_internal_output(f, answer_id, tokens, v) ==
    pack_values_into_chain(tokens, <<FromBuilder(write_u32(answer_id))>>, v)

\* Function::add_sign_to_encoded_input
add_sign_to_encoded_input(v, signature, public_key, function_call) ==
    fill_sign(v, <<signature>>, public_key, function_call)

-----------------------------------------------------------------------------
(* The layout engine on its own: pack_cells_into_chain applied to every     *)
(* short sequence of serialized values of the shapes write_to_cells and     *)
(* create_unsigned_call produce (data within the envelope, at most 1023     *)
(* bits and 3 references per value).                                        *)

MaxValues == 4

Unused == <<>>

\* a serialized value of the given actual and envelope sizes
Shape(bits, refs, mb, mr, mark) ==
    SerializedValue(Cell(Chunk(bits, mark),
                         [i \in 1..refs |-> Cell(Chunk(8, 16 * mark + i), <<>>)]),
                    mb, mr)

PackShapes ==
    { Shape(32, 0, 32, 0, 1),      \* a u32 (From<BuilderData>)
      Shape(1, 0, 257, 0, 0),      \* PublicKey(None)
      Shape(0, 1, 0, 1, 3),        \* Cell, Bytes, Ref
      Shape(1, 0, 1, 1, 0),        \* a large Optional, absent
      Shape(600, 0, 600, 0, 5),    \* a wide in-cell value
      Shape(1, 3, 1, 3, 1) }       \* an inlined Optional holding three references

RECURSIVE SeqsUpTo(_, _)
SeqsUpTo(S, n) ==
    IF n = 0 THEN {<<>>}
    ELSE LET shorter == SeqsUpTo(S, n - 1)
         IN shorter \cup {Append(s, x) : s \in {t \in shorter : Len(t) = n - 1}, x \in S}

InitPack ==
    /\ abi_version \in Versions
    /\ values \in SeqsUpTo(PackShapes, MaxValues)
    /\ pc = "start"
    /\ packed = Unused
    /\ func = Unused /\ header_tokens = Unused /\ input = Unused
    /\ internal = Unused /\ pair = Unused /\ address = Unused /\ now = Unused
    /\ unsigned = Unused /\ reserve = Unused /\ body = Unused /\ fill = Unused
    /\ decoded = Unused
    /\ sent_id = Unused /\ answer = Unused /\ response = Unused /\ output = Unused
    /\ serde_function = Unused /\ header_params = Unused /\ function_hash = Unused
    /\ checked_type = Unused /\ token_value = Unused /\ declared = Unused
    /\ json_values = Unused /\ result = Unused

Pack ==
    /\ pc = "start"
    /\ pc' = "packed"
    /\ packed' = [cells |-> PackedCells(values, abi_version),
                  chain |-> pack_cells_into_chain(values, abi_version)]
    /\ UNCHANGED <<idVars, abiVars>>
    /\ UNCHANGED <<abi_version, values, func, header_tokens, input, internal, pair,
                   address, now, unsigned, reserve, body, fill, decoded>>

\* pack_cells_into_chain turn by turn: the list packed_cells is set up,
BeginLoop ==
    /\ pc = "start"
    /\ pc' = "loop"
    /\ packed' = [i |-> 0, cells |-> FirstCell]
    /\ UNCHANGED <<idVars, abiVars>>
    /\ UNCHANGED <<abi_version, values, func, header_tokens, input, internal, pair,
                   address, now, unsigned, reserve, body, fill, decoded>>

\* the next value is popped and placed,
LoopTurn ==
    /\ pc = "loop" /\ packed.i < Len(values)
    /\ LET one == PackOne(values, packed.i + 1, packed.cells, abi_version)
       IN IF one.ok
          THEN pc' = "loop" /\ packed' = [i |-> packed.i + 1, cells |-> one.val]
          ELSE pc' = "failed" /\ packed' = [cells |-> one, chain |-> one]
    /\ UNCHANGED <<idVars, abiVars>>
    /\ UNCHANGED <<abi_version, values, func, header_tokens, input, internal, pair,
                   address, now, unsigned, reserve, body, fill, decoded>>

\* and, the input exhausted, the cells are linked into the chain
LinkCells ==
    /\ pc = "loop" /\ packed.i = Len(values)
    /\ pc' = "linked"
    /\ packed' = [cells |-> Ok(packed.cells), chain |-> LinkPacked(Ok(packed.cells))]
    /\ UNCHANGED <<idVars, abiVars>>
    /\ UNCHANGED <<abi_version, values, func, header_tokens, input, internal, pair,
                   address, now, unsigned, reserve, body, fill, decoded>>

NextPack == Pack \/ BeginLoop \/ LoopTurn \/ LinkCells

SpecPack == InitPack /\ [][NextPack]_vars

\* the cells of a chain of n cells, from the root down the last references
RECURSIVE ChainCells(_, _)
ChainCells(root, n) ==
    IF n <= 1 THEN <<root>>
    ELSE <<root>> \o ChainCells(root.refs[Len(root.refs)], n - 1)

\* C2: under ABI >= 2.2 every cell pack_cells_into_chain lays out stays within
\* 1023 bits and 4 references, the continuation reference included, both in
\* the envelope it accounts for and in the bits and references it holds.
EnvelopeSoundness ==
    (pc = "packed" /\ VGe(abi_version, ABI_VERSION_2_2) /\ packed.cells.ok) =>
        LET cells == packed.cells.val
            n == Len(cells)
        IN /\ \A i \in 1..n :
                /\ cells[i].max_bits <= BitsCapacity
                /\ cells[i].max_refs + (IF i < n THEN 1 ELSE 0) <= ReferencesCapacity
           /\ packed.chain.ok =>
                \A i \in 1..n :
                    LET c == ChainCells(packed.chain.val, n)[i]
                    IN bits_used(c) <= BitsCapacity
                       /\ references_used(c) <= ReferencesCapacity

\* C2 witness: an ABI >= 2.2 chain of three cells, one of them full in references
EnvelopeWitness ==
    /\ pc = "packed" /\ VGe(abi_version, ABI_VERSION_2_2)
    /\ packed.chain.ok /\ Len(packed.cells.val) >= 3
    /\ \E i \in 1..Len(packed.cells.val) :
          references_used(ChainCells(packed.chain.val, Len(packed.cells.val))[i]) = 4

-----------------------------------------------------------------------------
(* The deserializer.  Its source is not part of the tree the model is taken *)
(* from; it is modelled after the contract that the specification states    *)
(* for it: values are read from the current cell, and when the cell has not *)
(* enough bits or references left and has a continuation reference the      *)
(* reader jumps into it; in partial mode an exhausted slice yields defaults.*)

\* a slice over a cell; count is the number of references the cell holds
Slice(c) == [bits |-> c.bits, refs |-> c.refs, count |-> Len(c.refs)]

Cursor(slice, ub, ur) == [slice |-> slice, used_bits |-> ub, used_refs |-> ur]

Bind(r, F(_)) == IF r.ok THEN F(r.val) ELSE r

\* SliceData::get_next_bits and friends: no jump
get_next_bits(slice, n) ==
    IF BitLen(slice.bits) < n THEN Err("CellUnderflow")
    ELSE Ok([bits |-> TakeBits(slice.bits, n),
             slice |-> [slice EXCEPT !.bits = DropBits(slice.bits, n)]])

U32Of(bits) == <<BitsVal(TakeBits(bits, 16), 0), BitsVal(DropBits(bits, 16), 0)>>

get_next_u32(slice) ==
    LET r == get_next_bits(slice, 32)
    IN IF ~r.ok THEN r ELSE Ok([val |-> U32Of(r.val.bits), slice |-> r.val.slice])

checked_drain_reference(slice) ==
    IF slice.refs = <<>> THEN Err("CellUnderflow")
    ELSE Ok([val |-> Head(slice.refs), slice |-> [slice EXCEPT !.refs = Tail(slice.refs)]])

\* the slice in which the next n bits are read
find_next_bits(slice, n, jump) ==
    IF BitLen(slice.bits) >= n THEN Ok(slice)
    ELSE IF jump /\ slice.refs # <<>>
            /\ bits_used(slice.refs[Len(slice.refs)]) >= n
    THEN Ok(Slice(slice.refs[Len(slice.refs)]))
    ELSE Err("DeserializationError")

read_bits(slice, n, jump) == Bind(find_next_bits(slice, n, jump), LAMBDA s : get_next_bits(s, n))

\* a size-bit two's complement number
SignedOf(raw, size) == IF raw >= Pow2(size - 1) THEN raw - Pow2(size) ELSE raw

read_uint(size, slice, jump) ==
    Bind(read_bits(slice, size, jump),
         LAMBDA r : Ok([val |-> VUint(BitsVal(r.bits, 0), size), slice |-> r.slice]))

read_int(size, slice, jump) ==
    Bind(read_bits(slice, size, jump),
         LAMBDA r : Ok([val |-> VInt(SignedOf(BitsVal(r.bits, 0), size), size),
                        slice |-> r.slice]))

read_bool(slice, jump) ==
    Bind(read_bits(slice, 1, jump),
         LAMBDA r : Ok([val |-> VBool(BitsVal(r.bits, 0) = 1), slice |-> r.slice]))

read_time(slice, jump) ==
    Bind(read_bits(slice, 64, jump),
         LAMBDA r : Ok([val |-> VTime(BitsVal(r.bits, 0)), slice |-> r.slice]))

read_expire(slice, jump) ==
    Bind(read_bits(slice, 32, jump),
         LAMBDA r : Ok([val |-> VExpire(U32Of(r.bits)), slice |-> r.slice]))

read_public_key(slice, jump) ==
    Bind(read_bits(slice, 1, jump),
         LAMBDA r : IF BitsVal(r.bits, 0) = 0
                    THEN Ok([val |-> VPublicKey(<<>>), slice |-> r.slice])
                    ELSE Bind(get_next_bits(r.slice, PUBLIC_KEY_LENGTH * 8),
                              LAMBDA k : Ok([val |-> VPublicKey(<<BitsVal(k.bits, 0)>>),
                                             slice |-> k.slice])))

read_address(slice, jump) ==
    Bind(read_bits(slice, 2, jump),
         LAMBDA r : IF BitsVal(r.bits, 0) = 0
                    THEN Ok([val |-> VAddress(AddrNone), slice |-> r.slice])
                    ELSE Bind(get_next_bits(r.slice, 1 + 8 + 256),
                              LAMBDA a : Ok([val |-> VAddress(AddrStd(
                                                BitsVal(TakeBits(DropBits(a.bits, 1), 8), 0),
                                                BitsVal(DropBits(a.bits, 9), 0))),
                                             slice |-> a.slice])))

\* a reference is a value unless it is the continuation of the cell
read_cell(slice, last, v, jump) ==
    IF jump /\ Len(slice.refs) = 1
       /\ \/ v = ABI_VERSION_1_0 /\ slice.count = ReferencesCapacity
          \/ v # ABI_VERSION_1_0 /\ ~last /\ BitLen(slice.bits) = 0
    THEN Bind(checked_drain_reference(Slice(slice.refs[1])),
              LAMBDA r : Ok([val |-> VCell(r.val), slice |-> r.slice]))
    ELSE Bind(checked_drain_reference(slice),
              LAMBDA r : Ok([val |-> VCell(r.val), slice |-> r.slice]))

RECURSIVE default_value(_)
\* TokenValue::default_value
default_value(ty) ==
    CASE ty.k = "Uint" -> VUint(0, ty.size)
      [] ty.k = "Int" -> VInt(0, ty.size)
      [] ty.k = "Bool" -> VBool(FALSE)
      [] ty.k = "Cell" -> VCell(EmptyCell)
      [] ty.k = "Address" -> VAddress(AddrNone)
      [] ty.k = "Time" -> VTime(0)
      [] ty.k = "Expire" -> VExpire(<<0, 0>>)
      [] ty.k = "PublicKey" -> VPublicKey(<<>>)
      [] ty.k = "Tuple" ->
            VTuple([i \in 1..Len(ty.params) |->
                      Token(ty.params[i].name, default_value(ty.params[i].kind))])

RECURSIVE read_from(_, _, _, _, _, _)
RECURSIVE decode_params_loop(_, _, _, _, _, _, _)
RECURSIVE DecodeRest(_, _, _, _, _, _, _)

\* a tuple of the tokens read
AsTuple(r) ==
    IF ~r.ok THEN r ELSE Ok([val |-> VTuple(r.val.tokens), slice |-> r.val.slice])

\* the reader of one value: Ok([val, slice]) or the error
read_from(ty, slice, last, v, allow_partial, jump) ==
    CASE ty.k = "Uint" -> read_uint(ty.size, slice, jump)
      [] ty.k = "Int" -> read_int(ty.size, slice, jump)
      [] ty.k = "Bool" -> read_bool(slice, jump)
      [] ty.k = "Cell" -> read_cell(slice, last, v, jump)
      [] ty.k = "Address" -> read_address(slice, jump)
      [] ty.k = "Time" -> read_time(slice, jump)
      [] ty.k = "Expire" -> read_expire(slice, jump)
      [] ty.k = "PublicKey" -> read_public_key(slice, jump)
      [] ty.k = "Tuple" ->
            AsTuple(decode_params_loop(ty.params, 1, slice, last, v, allow_partial, jump))

\* a token in front of the tokens that follow
PushToken(token, rest) ==
    IF ~rest.ok THEN rest
    ELSE Ok([tokens |-> <<token>> \o rest.val.tokens, slice |-> rest.val.slice])

\* the params from the i-th on: Ok([tokens, slice]) or the error
decode_params_loop(params, i, slice, last, v, allow_partial, jump) ==
    IF i > Len(params) THEN Ok([tokens |-> <<>>, slice |-> slice])
    ELSE DecodeRest(params, i,
                    IF allow_partial /\ slice.bits = <<>> /\ slice.refs = <<>>
                    THEN Ok([val |-> default_value(params[i].kind), slice |-> slice])
                    ELSE read_from(params[i].kind, slice, last /\ i = Len(params), v,
                                   allow_partial, jump),
                    last, v, allow_partial, jump)

\* the params after the i-th, once the i-th is read
DecodeRest(params, i, one, last, v, allow_partial, jump) ==
    IF ~one.ok THEN one
    ELSE PushToken(Token(params[i].name, one.val.val),
                   decode_params_loop(params, i + 1, one.val.slice, last, v,
                                      allow_partial, jump))

\* TokenValue::decode_params_with_cursor: Ok([tokens, cursor]) or the error
decode_params_with_cursor(params, cursor, v, allow_partial, allow_reference_jump) ==
    LET r == decode_params_loop(params, 1, cursor.slice, TRUE, v, allow_partial,
                                allow_reference_jump)
    IN IF ~r.ok THEN r
       ELSE Ok([tokens |-> r.val.tokens, cursor |-> [cursor EXCEPT !.slice = r.val.slice]])

\* Function::decode_header, step by step on [tokens, id, cursor]
HeaderIdFirst(v, st) ==
    IF v # ABI_VERSION_1_0 THEN Ok(st)
    ELSE Bind(get_next_u32(st.cursor.slice),
              LAMBDA r : Ok([st EXCEPT !.id = r.val,
                                       !.cursor = Cursor(r.slice, st.cursor.used_bits + 32,
                                                         st.cursor.used_refs)]))

HeaderSkipSignature(v, st) ==
    IF v = ABI_VERSION_1_0
    THEN Bind(checked_drain_reference(st.cursor.slice),
              LAMBDA r : Ok([st EXCEPT !.cursor = Cursor(r.slice, st.cursor.used_bits,
                                                         st.cursor.used_refs + 1)]))
    ELSE LET used == IF VGe(v, ABI_VERSION_2_3) THEN max_bit_size(TAddress, v)
                     ELSE 1 + SIGNATURE_LENGTH * 8
         IN Bind(get_next_bits(st.cursor.slice, 1),
                 LAMBDA b :
                    IF BitsVal(b.bits, 0) = 1
                    THEN Bind(get_next_bits(b.slice, SIGNATURE_LENGTH * 8),
                              LAMBDA g : Ok([st EXCEPT !.cursor =
                                  Cursor(g.slice, st.cursor.used_bits + used,
                                         st.cursor.used_refs)]))
                    ELSE Ok([st EXCEPT !.cursor =
                                  Cursor(b.slice, st.cursor.used_bits + used,
                                         st.cursor.used_refs)]))

HeaderParams(v, header, st) ==
    Bind(decode_params_with_cursor(header, st.cursor, v, TRUE, FALSE),
         LAMBDA r : Ok([st EXCEPT !.tokens = r.tokens, !.cursor = r.cursor]))

HeaderIdLast(v, st) ==
    IF v = ABI_VERSION_1_0 THEN Ok(st)
    ELSE Bind(get_next_u32(st.cursor.slice),
              LAMBDA r : Ok([st EXCEPT !.id = r.val,
                                       !.cursor = Cursor(r.slice, st.cursor.used_bits + 32,
                                                         st.cursor.used_refs)]))

\* Function::decode_header: Ok([tokens, id, cursor]) or the error
decode_header(v, cell, header, intern) ==
    LET st0 == [tokens |-> <<>>, id |-> <<0, 0>>, cursor |-> Cursor(Slice(cell), 0, 0)]
        st1 == HeaderIdFirst(v, st0)
        st2 == IF intern THEN st1
               ELSE Bind(Bind(st1, LAMBDA st : HeaderSkipSignature(v, st)),
                         LAMBDA st : HeaderParams(v, header, st))
    IN Bind(st2, LAMBDA st : HeaderIdLast(v, st))

\* Function::decode_input: Ok(tokens) or the error
decode_input(f, cell, intern, allow_partial, v) ==
    Bind(decode_header(v, cell, f.header, intern),
         LAMBDA h :
            IF h.id # f.input_id THEN [ok |-> FALSE, err |-> "WrongId", id |-> h.id]
            ELSE Bind(decode_params_with_cursor(f.inputs, h.cursor, v, allow_partial, TRUE),
                      LAMBDA r : Ok(r.tokens)))

\* TokenValue::decode_params: the params from the start of the data
decode_params(ps, data, v, allow_partial) ==
    Bind(decode_params_with_cursor(ps, Cursor(Slice(data), 0, 0), v, allow_partial, FALSE),
         LAMBDA r : Ok(r.tokens))

\* an output ID taken from the input ID field
get_output_id_of_input(f) == f.input_id

\* Function::get_output_id
get_output_id(f) == f.output_id

\* the check and the params of decode_output and decode_output_partial
OutputParams(f, id, v, allow_partial) ==
    IF id.val # get_output_id(f) THEN [ok |-> FALSE, err |-> "WrongId", id |-> id.val]
    ELSE decode_params(f.outputs, Cell(id.slice.bits, id.slice.refs), v, allow_partial)

\* Function::decode_output
decode_output(f, data, v) ==
    Bind(get_next_u32(Slice(data)), LAMBDA id : OutputParams(f, id, v, FALSE))

\* Function::decode_output_partial
decode_output_partial(f, data, v) ==
    Bind(get_next_u32(Slice(data)), LAMBDA id : OutputParams(f, id, v, TRUE))

-----------------------------------------------------------------------------
(* The assembler as a state machine: a function descriptor and the          *)
(* arguments of a call are chosen, then the call is encoded in one step     *)
(* (encode_input) or in two (create_unsigned_call, then fill_sign), and the *)
(* body is decoded again.                                                   *)

MaxClock == 1
MaxKey == 1

Clocks == 1..MaxClock
Keys == 1..MaxKey

None == <<>>
Some(x) == <<x>>

\* a leaf cell and a cell with a child, as values of type cell
LeafCell == Cell(Chunk(8, 171), <<>>)
TreeCell == Cell(Chunk(4, 9), <<LeafCell>>)

\* the function descriptors: header params by major version, and the input
\* params with the token lists a caller may pass for them
Headers(v) ==
    IF v[1] = 1
    THEN {<<>>, <<Param("h", TUint(8))>>}
    ELSE {<<>>,
          <<Param("expire", TExpire), Param("pubkey", TPublicKey)>>,
          <<Param("time", TTime)>>}

HeaderTokens(header) ==
    IF header = <<>> THEN {<<>>}
    ELSE IF header[1].name = "h" THEN {<<>>, [h |-> VUint(7, 8)]}
    ELSE IF header[1].name = "time" THEN {<<>>, [time |-> VTime(77)]}
    ELSE {<<>>,
          [expire |-> VExpire(<<0, 123>>)],
          [expire |-> VExpire(<<0, 123>>), pubkey |-> VPublicKey(Some(9))],
          [expire |-> VUint(123, 32)]}

Case(params, tokens) == [params |-> params, tokens |-> tokens]

InputCases ==
    LET a8 == <<Param("a", TUint(8))>>
        xf == <<Param("x", TInt(8)), Param("flag", TBool)>>
        cn == <<Param("c", TCell), Param("n", TUint(16))>>
        big == <<Param("a", TUint(256)), Param("b", TUint(256)),
                 Param("c", TUint(256)), Param("d", TAddress)>>
        c5 == <<Param("c1", TCell), Param("c2", TCell), Param("c3", TCell),
                Param("c4", TCell), Param("c5", TCell)>>
        c4n == <<Param("c1", TCell), Param("c2", TCell), Param("c3", TCell),
                 Param("c4", TCell), Param("n", TUint(8))>>
        tup == <<Param("t", TTuple(<<Param("a", TUint(8)), Param("b", TBool)>>)),
                 Param("z", TAddress)>>
        full == <<Param("a", TUint(256)), Param("b", TUint(222))>>
    IN { Case(<<>>, <<>>),
         Case(a8, <<Token("a", VUint(5, 8))>>),
         Case(a8, <<Token("a", VUint(255, 8))>>),
         Case(a8, <<Token("a", VUint(256, 8))>>),
         Case(a8, <<Token("a", VUint(5, 16))>>),
         Case(a8, <<Token("b", VUint(5, 8))>>),
         Case(a8, <<>>),
         Case(xf, <<Token("x", VInt(-128, 8)), Token("flag", VBool(TRUE))>>),
         Case(xf, <<Token("x", VInt(127, 8)), Token("flag", VBool(FALSE))>>),
         Case(xf, <<Token("x", VInt(-1, 8)), Token("flag", VBool(TRUE))>>),
         Case(xf, <<Token("x", VInt(128, 8)), Token("flag", VBool(TRUE))>>),
         Case(xf, <<Token("x", VInt(-129, 8)), Token("flag", VBool(TRUE))>>),
         Case(xf, <<Token("x", VInt(256, 8)), Token("flag", VBool(TRUE))>>),
         Case(cn, <<Token("c", VCell(TreeCell)), Token("n", VUint(300, 16))>>),
         Case(big, <<Token("a", VUint(1, 256)), Token("b", VUint(2, 256)),
                     Token("c", VUint(3, 256)), Token("d", VAddress(AddrStd(0, 33)))>>),
         Case(full, <<Token("a", VUint(1, 256)), Token("b", VUint(2, 222))>>),
         Case(c5, <<Token("c1", VCell(LeafCell)), Token("c2", VCell(TreeCell)),
                    Token("c3", VCell(EmptyCell)), Token("c4", VCell(LeafCell)),
                    Token("c5", VCell(TreeCell))>>),
         Case(c4n, <<Token("c1", VCell(LeafCell)), Token("c2", VCell(TreeCell)),
                     Token("c3", VCell(EmptyCell)), Token("c4", VCell(LeafCell)),
                     Token("n", VUint(9, 8))>>),
         Case(tup, <<Token("t", VTuple(<<Token("a", VUint(200, 8)),
                                         Token("b", VBool(TRUE))>>)),
                     Token("z", VAddress(AddrNone))>>) }

\* the input function ID: a u32 with its top bit clear
InputId == <<4660, 22136>>

\* the state before a call is encoded, for the ABI versions of a set
InitOf(versions) ==
    /\ abi_version \in versions
    /\ \E header \in Headers(abi_version), c \in InputCases :
          /\ func = [header |-> header, inputs |-> c.params, input_id |-> InputId]
          /\ input = c.tokens
          /\ header_tokens \in HeaderTokens(header)
    /\ internal \in BOOLEAN
    /\ pair \in {None} \cup {Some([key |-> k, signature_id |-> id]) :
                                k \in Keys, id \in {None, Some(5)}}
    /\ address \in {None, Some(AddrStd(0, 17))}
    /\ now \in Clocks
    /\ pc = "start"
    /\ unsigned = Unused /\ reserve = Unused /\ body = Unused /\ fill = Unused
    /\ decoded = Unused
    /\ sent_id = Unused /\ answer = Unused /\ response = Unused /\ output = Unused
    /\ serde_function = Unused /\ header_params = Unused /\ function_hash = Unused
    /\ checked_type = Unused /\ token_value = Unused /\ declared = Unused
    /\ json_values = Unused /\ result = Unused
    /\ values = Unused /\ packed = Unused

Init == InitOf(Versions)

\* Function::encode_input
EncodeInput ==
    /\ pc = "start"
    /\ body' = encode_input(func, header_tokens, input, internal, pair, address,
                            abi_version, now)
    /\ pc' = "encoded"
    /\ UNCHANGED <<idVars, abiVars>>
    /\ UNCHANGED <<abi_version, values, packed, func, header_tokens, input, internal,
                   pair, address, now, unsigned, reserve, fill, decoded>>

\* Function::create_unsigned_call
CreateUnsignedCall ==
    /\ pc = "start"
    /\ \E reserve_sign \in BOOLEAN :
          /\ reserve' = reserve_sign
          /\ unsigned' = create_unsigned_call(func, header_tokens, input, internal,
                                              reserve_sign, address, abi_version, now)
    /\ pc' = "unsigned"
    /\ UNCHANGED <<idVars, abiVars>>
    /\ UNCHANGED <<abi_version, values, packed, func, header_tokens, input, internal,
                   pair, address, now, body, fill, decoded>>

\* Function::fill_sign on the builder of create_unsigned_call, with a signature
\* of its hash or with none
FillSign ==
    /\ pc = "unsigned" /\ unsigned.ok
    /\ \E signature \in {None} \cup
                        {Some(sign_with_signature_id(k, unsigned.val.hash, None)) : k \in Keys},
          public_key \in {None} \cup {Some(PublicOf(k)) : k \in Keys} :
          /\ fill' = [signature |-> signature, public_key |-> public_key]
          /\ body' = fill_sign(abi_version, signature, public_key, unsigned.val.builder)
    /\ pc' = "filled"
    /\ UNCHANGED <<idVars, abiVars>>
    /\ UNCHANGED <<abi_version, values, packed, func, header_tokens, input, internal,
                   pair, address, now, unsigned, reserve, decoded>>

\* Function::decode_input of the body just built
DecodeInput ==
    /\ pc \in {"encoded", "filled", "signed"} /\ body.ok
    /\ decoded' = decode_input(func, body.val, internal, FALSE, abi_version)
    /\ pc' = CASE pc = "encoded" -> "decoded"
                [] pc = "filled" -> "decoded_filled"
                [] pc = "signed" -> "decoded_signed"
    /\ UNCHANGED <<idVars, abiVars>>
    /\ UNCHANGED <<abi_version, values, packed, func, header_tokens, input, internal,
                   pair, address, now, unsigned, reserve, body, fill>>

\* Function::add_sign_to_encoded_input on the body of create_unsigned_call,
\* with the signature the key pair of the state makes of its hash
AddSignToEncodedInput ==
    /\ pc = "unsigned" /\ unsigned.ok /\ pair # None
    /\ \E public_key \in {None, Some(PublicOf(pair[1].key))} :
          /\ fill' = [signature |-> Some(sign_with_signature_id(pair[1].key,
                                            unsigned.val.hash, pair[1].signature_id)),
                      public_key |-> public_key]
          /\ body' = add_sign_to_encoded_input(abi_version, fill'.signature[1],
                                               public_key, unsigned.val.builder)
    /\ pc' = "signed"
    /\ UNCHANGED <<idVars, abiVars>>
    /\ UNCHANGED <<abi_version, values, packed, func, header_tokens, input, internal,
                   pair, address, now, unsigned, reserve, decoded>>

Next ==
    EncodeInput \/ CreateUnsignedCall \/ FillSign \/ AddSignToEncodedInput
        \/ DecodeInput

Spec == Init /\ [][Next]_vars

\* every (major, minor) pair a Function may carry in its public abi_version
\* field: the six versions above, a later minor of each major
AnyVersions == Versions \cup {<<1, 1>>, <<2, 7>>}

InitAnyVersion == InitOf(AnyVersions)

\* the assembler over every pair of the set, recognized or not
SpecAnyVersion == InitAnyVersion /\ [][Next]_vars

-----------------------------------------------------------------------------
(* Round trip.                                                              *)

\* C1: decode_input of the body that encode_input built, in the same mode,
\* returns the input tokens that were encoded, for all well-typed inputs.
RoundTrip ==
    (pc = "decoded" /\ types_check(input, func.inputs)) =>
        decoded.ok /\ decoded.val = input

\* the numbers of the tokens lie in the range of their types
RECURSIVE InRange(_)
InRange(tokens) ==
    \A i \in 1..Len(tokens) :
        LET val == tokens[i].value
        IN CASE val.t = "Int" ->
                    -Pow2(val.size - 1) <= val.number /\ val.number < Pow2(val.size - 1)
             [] val.t = "Tuple" -> InRange(val.tokens)
             [] OTHER -> TRUE

\* the round trip of the inputs whose signed numbers are in range
RoundTripInRange ==
    (pc = "decoded" /\ InRange(input)) => decoded.ok /\ decoded.val = input

-----------------------------------------------------------------------------
(* Type stability.                                                          *)

\* some unsigned number of the tokens does not fit the size of its type
RECURSIVE UintOverflow(_)
UintOverflow(tokens) ==
    \E i \in 1..Len(tokens) :
        LET val == tokens[i].value
        IN CASE val.t = "Uint" -> MagnitudeBits(val.number) > val.size
             [] val.t = "Tuple" -> UintOverflow(val.tokens)
             [] OTHER -> FALSE

\* C4: encoding the inputs of an internal call, where nothing but the values
\* can fail, succeeds if and only if the values type-check.
TypeStability ==
    (pc = "encoded" /\ internal /\ pair = None) =>
        (body.ok <=> types_check(input, func.inputs))

\* C4, amended: encoding succeeds only if the values type-check, and values
\* that do not type-check fail with WrongParameterType; but values that
\* type-check still fail, with InvalidData, when an unsigned number does not
\* fit the size of its type.
TypeStabilityAmended ==
    pc = "encoded" =>
        /\ body.ok => types_check(input, func.inputs)
        /\ ~types_check(input, func.inputs) =>
              ~body.ok /\ body.err = "WrongParameterType"
        /\ (internal /\ types_check(input, func.inputs) /\ UintOverflow(input)) =>
              ~body.ok /\ body.err = "InvalidData"

\* C4 witness: a well-typed unsigned value too wide for its type was refused
TypeStabilityWitness ==
    /\ pc = "encoded" /\ internal
    /\ types_check(input, func.inputs) /\ UintOverflow(input)
    /\ ~body.ok /\ body.err = "InvalidData"

-----------------------------------------------------------------------------
(* Signature placement.                                                     *)

\* the bits of the public key, when one is given
KeyBits(public_key) ==
    IF public_key # None THEN Chunk(PUBLIC_KEY_LENGTH * 8, public_key[1]) ELSE <<>>

\* fill_sign in ABI 1.0: the signature and the public key are one cell, the
\* first reference of the body, whose bits and other references are unchanged
SignatureInReference ==
    /\ body.val.refs # <<>>
    /\ CellEq(body.val.refs[1],
              Cell(SymChunk(SIGNATURE_LENGTH * 8, fill.signature[1])
                   \o KeyBits(fill.public_key), <<>>))
    /\ bits_used(body.val.refs[1])
          = 8 * (SIGNATURE_LENGTH
                 + IF fill.public_key # None THEN PUBLIC_KEY_LENGTH ELSE 0)
    /\ BitsEq(body.val.bits, unsigned.val.builder.bits)
    /\ Tail(body.val.refs) = unsigned.val.builder.refs

\* C5: after fill_sign with a signature, an ABI >= 2.0 body is bit 1, the 512
\* bits of the signature, the 256 bits of the public key when one is given,
\* then the original body; an ABI 1.0 body has the signature in its first
\* reference and its bits unchanged.
SignaturePlacement ==
    (pc = "filled" /\ fill.signature # None /\ body.ok) =>
        IF abi_version # ABI_VERSION_1_0
        THEN /\ BitsEq(body.val.bits,
                       Chunk(1, 1) \o SymChunk(SIGNATURE_LENGTH * 8, fill.signature[1])
                       \o KeyBits(fill.public_key) \o unsigned.val.builder.bits)
             /\ body.val.refs = unsigned.val.builder.refs
        ELSE SignatureInReference

\* C5, amended: after fill_sign with a signature, an ABI >= 2.0 body is bit 1,
\* the 512 bits of the signature, then the original body, whether a public key
\* is given or not; an ABI 1.0 body has the signature, followed by the public
\* key when one is given, as one cell in its first reference, and its bits
\* unchanged.
SignaturePlacementAmended ==
    (pc = "filled" /\ fill.signature # None /\ body.ok) =>
        IF abi_version # ABI_VERSION_1_0
        THEN /\ BitsEq(body.val.bits,
                       Chunk(1, 1) \o SymChunk(SIGNATURE_LENGTH * 8, fill.signature[1])
                       \o unsigned.val.builder.bits)
             /\ body.val.refs = unsigned.val.builder.refs
        ELSE SignatureInReference

\* C5 witness: an ABI >= 2.0 body filled with a signature and a public key
SignaturePlacementWitness ==
    /\ pc = "filled" /\ body.ok /\ abi_version # ABI_VERSION_1_0
    /\ fill.signature # None /\ fill.public_key # None
    /\ bits_used(unsigned.val.builder) > 0

-----------------------------------------------------------------------------
(* The digest and the destination address.                                  *)

\* the address cell's content followed by the body
WithAddress(addr, builder) ==
    Cell(write_address(addr).bits \o builder.bits, builder.refs)

\* C6: for every external call of ABI >= 2.3 the digest create_unsigned_call
\* returns is the representation hash of the destination address followed by
\* the body without the signature placeholder.
AddressPrefixHash ==
    (pc = "unsigned" /\ unsigned.ok /\ ~internal /\ VGe(abi_version, ABI_VERSION_2_3)) =>
        /\ address # None
        /\ HashEq(unsigned.val.hash,
                  repr_hash(WithAddress(address[1], unsigned.val.builder)))

\* C6, amended: for an external call of ABI >= 2.3 the digest is the hash of
\* the destination address followed by the body when a signature is reserved,
\* and the hash of the body alone when none is reserved; the signature that
\* encode_input puts in the body is made over the former.
AddressPrefixHashAmended ==
    /\ (pc = "unsigned" /\ unsigned.ok /\ ~internal
            /\ VGe(abi_version, ABI_VERSION_2_3)) =>
          IF reserve
          THEN /\ address # None
               /\ HashEq(unsigned.val.hash,
                         repr_hash(WithAddress(address[1], unsigned.val.builder)))
          ELSE HashEq(unsigned.val.hash, repr_hash(unsigned.val.builder))
    /\ (pc = "encoded" /\ body.ok /\ ~internal /\ pair # None
            /\ VGe(abi_version, ABI_VERSION_2_3)) =>
          LET sig == TakeBits(DropBits(body.val.bits, 1), SIGNATURE_LENGTH * 8)
              rest == Cell(DropBits(body.val.bits, 1 + SIGNATURE_LENGTH * 8),
                           body.val.refs)
          IN /\ address # None
             /\ Len(sig) = 1 /\ sig[1].sym # <<>> /\ sig[1].v = 0
             /\ sig[1].sym[1].signer = pair[1].key
             /\ HashEq(sig[1].sym[1].signed.data,
                       repr_hash(WithAddress(address[1], rest)))

\* C6 witness: an external ABI >= 2.3 call with a reserved signature and a
\* non-empty body got its digest
AddressPrefixHashWitness ==
    /\ pc = "unsigned" /\ unsigned.ok /\ ~internal /\ reserve
    /\ VGe(abi_version, ABI_VERSION_2_3)
    /\ input # <<>> /\ func.header # <<>>

\* the call fails for the lack of an address, and for nothing else
NeedsAddressOnly ==
    /\ address = None
    /\ pc = "encoded" =>
          encode_input(func, header_tokens, input, internal, pair,
                       Some(AddrStd(0, 0)), abi_version, now).ok
    /\ pc = "unsigned" =>
          create_unsigned_call(func, header_tokens, input, internal, reserve,
                               Some(AddrStd(0, 0)), abi_version, now).ok

\* the result of the call, of encode_input or of create_unsigned_call
CallResult == IF pc = "encoded" THEN body ELSE unsigned

\* C7: a call is refused with AddressRequired exactly when the ABI version is
\* >= 2.3, the call is external and no address is given (nothing else being
\* wrong with the call).
AddressRequiredExactly ==
    (pc \in {"encoded", "unsigned"}) =>
        /\ (~CallResult.ok /\ CallResult.err = "AddressRequired") =>
              VGe(abi_version, ABI_VERSION_2_3) /\ ~internal /\ address = None
        /\ (VGe(abi_version, ABI_VERSION_2_3) /\ ~internal /\ NeedsAddressOnly) =>
              ~CallResult.ok /\ CallResult.err = "AddressRequired"

\* a signature is reserved: asked of create_unsigned_call, or a key pair given
\* to encode_input
SignReserved == IF pc = "encoded" THEN pair # None ELSE reserve

\* C7, amended: AddressRequired is returned only under ABI >= 2.3 without an
\* address and with a signature reserved; an external call (nothing else being
\* wrong with it) is refused with it exactly when, on top of the version and
\* the missing address, a signature is reserved: an unsigned external call
\* needs no address.
AddressRequiredAmended ==
    (pc \in {"encoded", "unsigned"}) =>
        /\ (~CallResult.ok /\ CallResult.err = "AddressRequired") =>
              VGe(abi_version, ABI_VERSION_2_3) /\ SignReserved /\ address = None
        /\ (~internal /\ NeedsAddressOnly) =>
              IF VGe(abi_version, ABI_VERSION_2_3) /\ SignReserved
              THEN ~CallResult.ok /\ CallResult.err = "AddressRequired"
              ELSE CallResult.ok

\* C7 witness: an unsigned external ABI >= 2.3 call without an address succeeded
AddressRequiredWitness ==
    /\ pc = "encoded" /\ body.ok /\ ~internal /\ pair = None /\ address = None
    /\ VGe(abi_version, ABI_VERSION_2_3)

-----------------------------------------------------------------------------
(* The layout of a call body.                                               *)

\* every value of the tokens is written
Serializable(tokens) == write_all(tokens, 1, abi_version).ok

\* the function ID followed by the inputs
IdThenInputs ==
    pack_values_into_chain(input, <<FromBuilder(write_u32(func.input_id))>>, abi_version)

\* C8: encode_input of an internal call with well-typed inputs succeeds, and
\* the body is the function ID followed by the inputs, whatever the header
\* values, the key pair and the address.
InternalLayout ==
    (pc = "encoded" /\ internal /\ types_check(input, func.inputs)
        /\ Serializable(input)) =>
        body.ok /\ CellEq(body.val, IdThenInputs.val)

\* the bits of a header field on the wire: the caller's value when one is
\* given under the name of the field, the default of its type otherwise
FieldBits(param) ==
    IF param.name \in DOMAIN header_tokens
    THEN LET val == header_tokens[param.name]
         IN CASE val.t = "Expire" -> Chunk(16, val.expire[1]) \o Chunk(16, val.expire[2])
              [] val.t = "Time" -> Chunk(64, val.time)
              [] val.t = "PublicKey" ->
                    IF val.key = None THEN Chunk(1, 0)
                    ELSE Chunk(1, 1) \o Chunk(PUBLIC_KEY_LENGTH * 8, val.key[1])
              [] val.t = "Uint" -> Chunk(val.size, val.number)
    ELSE CASE param.kind.k = "Expire" -> Chunk(16, 65535) \o Chunk(16, 65535)
           [] param.kind.k = "PublicKey" -> Chunk(1, 0)
           [] param.kind.k = "Time" -> Chunk(64, now)

RECURSIVE HeaderBits(_)
HeaderBits(i) ==
    IF i > Len(func.header) THEN <<>>
    ELSE FieldBits(func.header[i]) \o HeaderBits(i + 1)

\* the bits and the references of a list of serialized values, in order
RECURSIVE FlatBits(_, _)
FlatBits(vals, i) ==
    IF i > Len(vals) THEN <<>> ELSE vals[i].data.bits \o FlatBits(vals, i + 1)
RECURSIVE FlatRefs(_, _)
FlatRefs(vals, i) ==
    IF i > Len(vals) THEN <<>> ELSE vals[i].data.refs \o FlatRefs(vals, i + 1)

\* the bits and the references are laid out, in order, in the cell and in the
\* cells that continue it through their last references
RECURSIVE Laid(_, _, _)
Laid(cell, bits, refs) ==
    LET n == bits_used(cell)
        m == references_used(cell)
    IN \/ BitsEq(cell.bits, bits) /\ cell.refs = refs
       \/ /\ m > 0 /\ n <= BitLen(bits) /\ m - 1 <= Len(refs)
          /\ BitsEq(cell.bits, TakeBits(bits, n))
          /\ SubSeq(cell.refs, 1, m - 1) = SubSeq(refs, 1, m - 1)
          /\ Laid(cell.refs[m], DropBits(bits, n), SubSeq(refs, m, Len(refs)))

\* the signature slot of an external body and what follows it
SlotBits == IF abi_version[1] = 1 THEN 0
            ELSE IF pair = None THEN 1 ELSE 1 + SIGNATURE_LENGTH * 8
AfterSlot ==
    Cell(DropBits(body.val.bits, SlotBits),
         IF abi_version[1] = 1 THEN Tail(body.val.refs) ELSE body.val.refs)

\* C9: the body of an external call is the signature slot, then the function
\* ID and the header fields (ABI 1.x) or the header fields and the function ID
\* (ABI >= 2.0), then the inputs in declared order; the header fields come in
\* declared order, each with the caller's value or else its default (Expire
\* all ones, PublicKey a single 0 bit), and an unsigned ABI >= 2.0 body starts
\* with a single 0 bit.
ExternalFieldOrder ==
    (pc = "encoded" /\ ~internal /\ body.ok) =>
        LET id == Chunk(16, func.input_id[1]) \o Chunk(16, func.input_id[2])
            inputs == write_all(input, 1, abi_version).val
            payload == (IF abi_version[1] = 1 THEN id \o HeaderBits(1)
                        ELSE HeaderBits(1) \o id) \o FlatBits(inputs, 1)
        IN /\ IF abi_version[1] = 1
              THEN /\ body.val.refs # <<>>
                   /\ bits_used(body.val.refs[1])
                         = IF pair = None THEN 0
                           ELSE 8 * (SIGNATURE_LENGTH + PUBLIC_KEY_LENGTH)
              ELSE IF pair = None
              THEN BitsEq(TakeBits(body.val.bits, 1), Chunk(1, 0))
              ELSE /\ BitsEq(TakeBits(body.val.bits, 1), Chunk(1, 1))
                   /\ bits_used(body.val) > SIGNATURE_LENGTH * 8
                   /\ body.val.bits[2].sym # <<>>
                   /\ body.val.bits[2].n = SIGNATURE_LENGTH * 8
           /\ Laid(AfterSlot, payload, FlatRefs(inputs, 1))

\* C9 witness: an external ABI >= 2.0 call with a header of two fields, one
\* given by the caller and one left to its default, and inputs that take more
\* than one cell
ExternalFieldOrderWitness ==
    /\ pc = "encoded" /\ ~internal /\ body.ok /\ abi_version[1] = 2
    /\ Len(func.header) = 2
    /\ DOMAIN header_tokens = {"expire"}
    /\ Len(input) = 5
    /\ Len(body.val.refs) = ReferencesCapacity

-----------------------------------------------------------------------------
(* What the signature signs.                                                *)

\* Ed25519 verification: the signature was made by the holder of the public
\* key over these very bytes, a prefix (or none) followed by a hash
Verifies(public_key, prefix, hash, signature) ==
    /\ signature.signer = public_key
    /\ signature.signed.prefix = prefix
    /\ HashEq(signature.signed.data, hash)

\* the body of a signed ABI 2.x call starts with bit 1 and a signature
StartsWithSignature ==
    /\ bits_used(body.val) > SIGNATURE_LENGTH * 8
    /\ BitsEq(TakeBits(body.val.bits, 1), Chunk(1, 1))
    /\ body.val.bits[2].sym # <<>>
    /\ body.val.bits[2].n = SIGNATURE_LENGTH * 8 /\ body.val.bits[2].v = 0

\* the hash of what follows the bit and the signature, references included
RestHash ==
    repr_hash(Cell(DropBits(body.val.bits, 1 + SIGNATURE_LENGTH * 8), body.val.refs))

\* C10: the body of an external call signed by encode_input under ABI 2.0-2.2
\* starts with bit 1 and a 512-bit signature, which verifies under the key
\* given over the hash of the rest of the body.
SignedDigest ==
    (pc = "encoded" /\ ~internal /\ pair # None /\ body.ok
        /\ abi_version[1] = 2 /\ ~VGe(abi_version, ABI_VERSION_2_3)) =>
        /\ StartsWithSignature
        /\ Verifies(PublicOf(pair[1].key), None, RestHash, body.val.bits[2].sym[1])

\* C10, amended: that signature verifies under the key given over the hash of
\* the rest of the body when no signature ID is given, and over the signature
\* ID followed by that hash when one is given.
SignedDigestAmended ==
    (pc = "encoded" /\ ~internal /\ pair # None /\ body.ok
        /\ abi_version[1] = 2 /\ ~VGe(abi_version, ABI_VERSION_2_3)) =>
        /\ StartsWithSignature
        /\ Verifies(PublicOf(pair[1].key), pair[1].signature_id, RestHash,
                    body.val.bits[2].sym[1])

\* C10 witness: an external ABI 2.0-2.2 call signed with a signature ID
SignedDigestWitness ==
    /\ pc = "encoded" /\ ~internal /\ body.ok
    /\ abi_version[1] = 2 /\ ~VGe(abi_version, ABI_VERSION_2_3)
    /\ pair # None /\ pair[1].signature_id # None
    /\ input # <<>>

-----------------------------------------------------------------------------
(* Two-step signing.                                                        *)

\* the body encode_input builds in one step with the key pair of the state
OneStep ==
    encode_input(func, header_tokens, input, internal, pair, address, abi_version, now)

\* the external two-step call: sign reserved, signed with signature and key
TwoStep ==
    /\ pc \in {"signed", "decoded_signed"}
    /\ reserve /\ ~internal /\ fill.public_key # None
    /\ types_check(input, func.inputs)

\* C11: create_unsigned_call with reserve_sign = true followed by
\* add_sign_to_encoded_input with a signature and public key yields the body
\* encode_input builds in one step with that signature, and decode_input of
\* that body returns the original inputs.
TwoStepSigning ==
    TwoStep =>
        /\ body.ok /\ OneStep.ok /\ CellEq(body.val, OneStep.val)
        /\ pc = "decoded_signed" => decoded.ok /\ decoded.val = input

\* the same for inputs whose integers are within their declared range
TwoStepSigningInRange ==
    (TwoStep /\ InRange(input)) =>
        /\ body.ok /\ OneStep.ok /\ CellEq(body.val, OneStep.val)
        /\ pc = "decoded_signed" => decoded.ok /\ decoded.val = input

-----------------------------------------------------------------------------
(* The ABI description on its own: from_serde and get_function_signature    *)
(* applied to the functions of a description, type_check and is_supported   *)
(* applied to types and values of every variant.                            *)

MaxLen == 2

\* the functions of tests/v2/test_contract.rs and one of nested types
SerdeFunctions ==
    { [name |-> "input_and_output",
       inputs |-> <<Param("a", TUint(64)), Param("b", TArray(TUint(8))),
                    Param("c", TBytes)>>,
       outputs |-> <<Param("a", TInt(16)), Param("b", TUint(8))>>,
       id |-> None],
      [name |-> "no_output", inputs |-> <<Param("a", TUint(15))>>, outputs |-> <<>>,
       id |-> None],
      [name |-> "no_input", inputs |-> <<>>, outputs |-> <<Param("a", TUint(8))>>,
       id |-> None],
      [name |-> "constructor", inputs |-> <<>>, outputs |-> <<>>, id |-> None],
      [name |-> "has_id", inputs |-> <<>>, outputs |-> <<>>, id |-> Some(<<291, 17767>>)],
      [name |-> "has_id", inputs |-> <<Param("a", TUint(8))>>, outputs |-> <<>>,
       id |-> Some(<<35243, 52719>>)],
      [name |-> "nested",
       inputs |-> <<Param("m", TMap(TAddress, TTuple(<<Param("x", TInt(8)),
                                                       Param("y", TFixedBytes(2))>>))),
                    Param("o", TOptional(TRef(TString))),
                    Param("f", TFixedArray(TVarUint(16), 3))>>,
       outputs |-> <<Param("g", TToken), Param("s", TAddressStd), Param("v", TVarInt(32)),
                     Param("c", TCell), Param("b", TBool)>>,
       id |-> None] }

\* the header params of a description: those of the function call assembler,
\* and the header of tests/v2/test_contract.rs
AbiHeaders(v) ==
    Headers(v) \cup
        (IF v[1] = 1 THEN {}
         ELSE {<<Param("time", TTime), Param("expire", TExpire),
                 Param("pubkey", TPublicKey), Param("a", TUint(64))>>})

\* leading digest bytes with the top bit clear and set
HashHeads ==
    {<<0, 0, 0, 0>>, <<18, 52, 86, 120>>, <<127, 255, 255, 255>>, <<128, 0, 0, 0>>,
     <<137, 171, 205, 239>>, <<255, 255, 255, 255>>}

\* the types without components
LeafTypes ==
    {TUint(8), TUint(16), TInt(8), TVarUint(16), TVarUint(32), TVarInt(16), TBool, TCell,
     TAddress, TAddressStd, TBytes, TFixedBytes(1), TFixedBytes(2), TString, TToken,
     TTime, TExpire, TPublicKey}

\* the element types of the containers
ElemTypes == {TUint(8), TUint(16), TBool}

\* the key types of the maps
KeyTypes == {TUint(8), TInt(8), TAddress}

\* the params of the tuples
TupleParams ==
    SeqsUpTo({Param(n, t) : n \in {"a", "b"}, t \in {TUint(8), TBool}}, MaxLen) \ {<<>>}

ParamTypes ==
    LeafTypes
        \cup {TArray(t) : t \in ElemTypes}
        \cup {TFixedArray(t, n) : t \in ElemTypes, n \in 0..MaxLen}
        \cup {TMap(k, t) : k \in KeyTypes, t \in ElemTypes}
        \cup {TOptional(t) : t \in ElemTypes}
        \cup {TRef(t) : t \in ElemTypes \cup {TRef(TBool)}}
        \cup {TTuple(p) : p \in TupleParams}

\* the values without components
LeafValues ==
    {VUint(5, 8), VUint(5, 16), VInt(-1, 8), VVarUint(16, 3), VVarUint(32, 3),
     VVarInt(16, -3), VBool(TRUE), VCell(LeafCell), VAddress(AddrNone),
     VAddressStd(AddrStd(0, 1)), VBytes(<<1, 2>>), VFixedBytes(<<1>>),
     VFixedBytes(<<1, 2>>), VString("s"), VToken(1), VTime(1), VExpire(<<0, 1>>),
     VPublicKey(<<>>)}

\* the elements of the containers and the keys of the maps
ElemValues == {VUint(5, 8), VUint(5, 16), VBool(TRUE)}
KeyValues == {VUint(1, 8), VUint(1, 16), VInt(1, 8), VAddress(AddrStd(0, 1))}

TokenValues ==
    LeafValues
        \cup {VArray(t, s) : t \in {TUint(8), TBool}, s \in SeqsUpTo(ElemValues, MaxLen)}
        \cup {VFixedArray(t, s) :
                t \in {TUint(8), TBool}, s \in SeqsUpTo(ElemValues, MaxLen)}
        \cup {VMap(k, t, <<>>) : k \in KeyTypes, t \in {TUint(8), TBool}}
        \cup {VMap(k, t, <<<<key, e>>>>) :
                k \in KeyTypes, t \in {TUint(8), TBool}, key \in KeyValues,
                e \in ElemValues}
        \cup {VOptional(t, o) :
                t \in {TUint(8), TBool}, o \in {None} \cup {Some(e) : e \in ElemValues}}
        \cup {VRef(e) : e \in ElemValues \cup {VRef(VBool(TRUE))}}
        \cup {VTuple(s) :
                s \in SeqsUpTo({Token(n, e) : n \in {"a", "b"},
                                              e \in {VUint(5, 8), VBool(TRUE)}}, MaxLen)}

\* the integers at the edges of the widths up to MaxWidth
EdgeNumbers(n) ==
    {0, 1, -1, Pow2(n - 1) - 1, Pow2(n - 1), Pow2(n - 1) + 1, -Pow2(n - 1),
     -Pow2(n - 1) - 1, Pow2(n) - 1, Pow2(n), Pow2(n) + 1, -Pow2(n), 2 * Pow2(n)}
EdgeValues ==
    {VInt(x, n) : n \in 1..MaxWidth, x \in UNION {EdgeNumbers(m) : m \in 1..MaxWidth}}
        \cup {VUint(x, n) :
                n \in 1..MaxWidth,
                x \in {y \in UNION {EdgeNumbers(m) : m \in 1..MaxWidth} : y >= 0}}

\* the values to serialize: every kind of value, the variable-length integers
\* around the byte counts their sizes admit, byte strings around the capacity
\* of a cell, and optionals of inner types around 1023 bits and 4 references
MaxVarSize == 4
MaxBytes == 300

VarNumbers ==
    {0, 1, -1, 127, 128, -128, -129, 255, 256, 32767, 32768, -32768, -32769,
     65535, 65536}
VarValues ==
    {VVarInt(n, x) : n \in 1..MaxVarSize, x \in VarNumbers}
        \cup {VVarUint(n, x) : n \in 1..MaxVarSize, x \in {y \in VarNumbers : y >= 0}}

ByteString(len) == [i \in 1..len |-> i % 251]
ByteLens == {0, 1, CellLen - 1, CellLen, CellLen + 1, 2 * CellLen, MaxBytes}
ByteValues ==
    UNION {{VBytes(ByteString(len)), VFixedBytes(ByteString(len)),
            VString(ByteString(len))} : len \in ByteLens}

PlainValues ==
    {VUint(5, 8), VUint(255, 8), VUint(256, 8), VInt(-3, 8), VInt(128, 8),
     VBool(TRUE), VCell(LeafCell), VAddress(AddrNone), VAddress(AddrStd(0, 1)),
     VAddressStd(AddrStd(0, 1)), VTime(1), VExpire(<<0, 5>>), VPublicKey(<<>>),
     VPublicKey(<<7>>), VToken(0), VToken(1000)}

\* a tuple of an address, an integer of 256 bits and one of `last` bits, and
\* a tuple of n cells
WideTuple(last) ==
    VTuple(<<Token("a", VAddress(AddrStd(0, 1))), Token("b", VUint(9, 256)),
             Token("c", VUint(3, last))>>)
CellTuple(n) == VTuple([i \in 1..n |-> Token("c", VCell(LeafCell))])
BothTuple(last, n) == VTuple(WideTuple(last).tokens \o CellTuple(n).tokens)

InnerValues ==
    {VUint(5, 8), VBool(FALSE), VCell(LeafCell), VBytes(ByteString(CellLen + 1)),
     VVarUint(MaxVarSize, 65535),
     WideTuple(174), WideTuple(175), WideTuple(176), WideTuple(177),
     CellTuple(2), CellTuple(3), CellTuple(4), BothTuple(175, 3), BothTuple(176, 3),
     BothTuple(175, 4)}

OptionalValues ==
    UNION {{VOptional(get_param_type(x), <<>>), VOptional(get_param_type(x), <<x>>),
            VRef(x),
            VOptional(TOptional(get_param_type(x)),
                      <<VOptional(get_param_type(x), <<x>>)>>)} : x \in InnerValues}

CollectionValues ==
    {VArray(TUint(8), <<>>), VArray(TUint(8), <<VUint(1, 8), VUint(2, 8)>>),
     VArray(TUint(8), <<VUint(256, 8)>>),
     VFixedArray(TBool, <<VBool(TRUE)>>),
     VMap(TUint(8), TBool, <<>>),
     VMap(TUint(8), TBool, <<<<VUint(1, 8), VBool(TRUE)>>>>),
     VMap(TInt(8), TUint(8), <<<<VInt(-1, 8), VUint(2, 8)>>>>),
     VMap(TAddress, TBool, <<<<VAddress(AddrStd(0, 1)), VBool(TRUE)>>>>),
     VMap(TAddress, TBool, <<<<VAddress(AddrNone), VBool(TRUE)>>>>),
     VMap(TBool, TBool, <<>>),
     VTuple(<<>>), WideTuple(176), CellTuple(4),
     VTuple(<<Token("x", VOptional(TUint(8), <<VUint(5, 8)>>)),
              Token("y", VVarInt(3, -129))>>)}

WriteValues ==
    PlainValues \cup VarValues \cup ByteValues \cup OptionalValues
        \cup CollectionValues

\* the JSON numbers to tokenize: the numbers around the ranges of the widths,
\* as JSON numbers and as decimal strings, some hexadecimal strings, and
\* values that are no numbers
JsonNumbers ==
    UNION {{JNumber(x), JString(ToString(x))} :
              x \in UNION {EdgeNumbers(m) : m \in 1..MaxWidth}}
        \cup {JString("0x7f"), JString("0x80"), JString("0xff"), JString("0x100"),
              JString("-0x80"), JString("-0x81"), JString("abc"), JNull, JBool(TRUE)}

\* the strings of the keys of a map to tokenize
KeyStrings ==
    {ToString(x) : x \in UNION {EdgeNumbers(m) : m \in 1..MaxWidth}}
        \cup {"0x7f", "0x80", "0xff", "0x100", "-0x80", "-0x81", "abc", "0:01", ""}

\* the declared params and the JSON inputs of the tokenizer
DeclaredParams ==
    {<<>>, <<Param("a", TUint(8))>>, <<Param("flag", TBool)>>,
     <<Param("a", TUint(8)), Param("flag", TBool)>>,
     <<Param("flag", TBool), Param("a", TUint(8))>>}
JsonScalars ==
    {JNull, JNumber(5), JNumber(300), JString("2"), JString("abc"), JString("true"),
     JBool(FALSE)}
JsonKeys == {"a", "flag", "zzz"}
JsonValues ==
    JsonScalars \cup {JArray(<<>>)}
        \cup {JObject(m) : m \in UNION {[K -> JsonScalars] : K \in SUBSET JsonKeys}}

AbiUnused ==
    /\ values = Unused /\ packed = Unused
    /\ header_tokens = Unused /\ input = Unused /\ internal = Unused
    /\ pair = Unused /\ address = Unused /\ now = Unused
    /\ unsigned = Unused /\ reserve = Unused /\ body = Unused /\ fill = Unused
    /\ decoded = Unused
    /\ sent_id = Unused /\ answer = Unused /\ response = Unused /\ output = Unused
    /\ func = Unused /\ result = Unused

\* a description to load
InitLoad ==
    /\ pc = "load"
    /\ abi_version \in Versions
    /\ serde_function \in SerdeFunctions
    /\ header_params \in AbiHeaders(abi_version)
    /\ function_hash \in HashHeads
    /\ checked_type = Unused /\ token_value = Unused
    /\ declared = Unused /\ json_values = Unused

\* a type to gate
InitGate ==
    /\ pc = "gate"
    /\ abi_version \in Versions
    /\ checked_type \in ParamTypes
    /\ serde_function = Unused /\ header_params = Unused /\ function_hash = Unused
    /\ token_value = Unused /\ declared = Unused /\ json_values = Unused

\* a value to check against a type
InitType ==
    /\ pc = "type"
    /\ abi_version = ABI_VERSION_2_4
    /\ checked_type \in ParamTypes
    /\ token_value \in TokenValues
    /\ serde_function = Unused /\ header_params = Unused /\ function_hash = Unused
    /\ declared = Unused /\ json_values = Unused

\* an integer to write
InitWrite ==
    /\ pc = "write"
    /\ abi_version \in {ABI_VERSION_1_0, ABI_VERSION_2_2}
    /\ token_value \in EdgeValues
    /\ checked_type = Unused
    /\ serde_function = Unused /\ header_params = Unused /\ function_hash = Unused
    /\ declared = Unused /\ json_values = Unused

\* a value to serialize
InitSerialize ==
    /\ pc = "serialize"
    /\ abi_version \in Versions
    /\ token_value \in WriteValues
    /\ checked_type = Unused
    /\ serde_function = Unused /\ header_params = Unused /\ function_hash = Unused
    /\ declared = Unused /\ json_values = Unused

\* an integer type and a JSON value to tokenize
InitNumber ==
    /\ pc = "number"
    /\ abi_version = ABI_VERSION_2_4
    /\ checked_type \in {TInt(n) : n \in 1..MaxWidth} \cup {TUint(n) : n \in 1..MaxWidth}
    /\ json_values \in JsonNumbers
    /\ token_value = Unused
    /\ serde_function = Unused /\ header_params = Unused /\ function_hash = Unused
    /\ declared = Unused

\* a key type and the string of a key to tokenize
InitKey ==
    /\ pc = "key"
    /\ abi_version = ABI_VERSION_2_4
    /\ checked_type \in {TInt(n) : n \in 1..MaxWidth} \cup {TUint(n) : n \in 1..MaxWidth}
                        \cup {TAddress, TBool, TCell, TBytes, TAddressStd}
    /\ json_values \in KeyStrings
    /\ token_value = Unused
    /\ serde_function = Unused /\ header_params = Unused /\ function_hash = Unused
    /\ declared = Unused

\* params and a JSON value to tokenize
InitTokenize ==
    /\ pc = "tokenize"
    /\ abi_version = ABI_VERSION_2_4
    /\ declared \in DeclaredParams
    /\ json_values \in JsonValues
    /\ checked_type = Unused /\ token_value = Unused
    /\ serde_function = Unused /\ header_params = Unused /\ function_hash = Unused

InitAbi ==
    AbiUnused /\ (InitLoad \/ InitGate \/ InitType \/ InitWrite \/ InitSerialize
                      \/ InitNumber \/ InitKey \/ InitTokenize)

\* Function::from_serde
FromSerde ==
    /\ pc = "load"
    /\ func' = from_serde(abi_version, serde_function, header_params, function_hash)
    /\ pc' = "loaded"
    /\ UNCHANGED <<abi_version, values, packed, header_tokens, input, internal, pair,
                   address, now, unsigned, reserve, body, fill, decoded, idVars,
                   serde_function, header_params, function_hash, checked_type,
                   token_value, declared, json_values, result>>

\* Function::get_function_signature
GetFunctionSignature ==
    /\ pc = "loaded"
    /\ result' = get_function_signature(func)
    /\ pc' = "signature"
    /\ UNCHANGED <<abi_version, values, packed, func, header_tokens, input, internal,
                   pair, address, now, unsigned, reserve, body, fill, decoded, idVars,
                   serde_function, header_params, function_hash, checked_type,
                   token_value, declared, json_values>>

\* ParamType::is_supported
IsSupported ==
    /\ pc = "gate"
    /\ result' = is_supported(checked_type, abi_version)
    /\ pc' = "gated"
    /\ UNCHANGED <<abi_version, values, packed, func, header_tokens, input, internal,
                   pair, address, now, unsigned, reserve, body, fill, decoded, idVars,
                   serde_function, header_params, function_hash, checked_type,
                   token_value, declared, json_values>>

\* TokenValue::type_check
TypeCheck ==
    /\ pc = "type"
    /\ result' = type_check(token_value, checked_type)
    /\ pc' = "checked"
    /\ UNCHANGED <<abi_version, values, packed, func, header_tokens, input, internal,
                   pair, address, now, unsigned, reserve, body, fill, decoded, idVars,
                   serde_function, header_params, function_hash, checked_type,
                   token_value, declared, json_values>>

\* TokenValue::pack_into_chain
PackIntoChain ==
    /\ pc = "write"
    /\ result' = pack_into_chain(token_value, abi_version)
    /\ pc' = "written"
    /\ UNCHANGED <<abi_version, values, packed, func, header_tokens, input, internal,
                   pair, address, now, unsigned, reserve, body, fill, decoded, idVars,
                   serde_function, header_params, function_hash, checked_type,
                   token_value, declared, json_values>>

\* TokenValue::write_to_cells
WriteToCells ==
    /\ pc = "serialize"
    /\ result' = write_to_cells(token_value, abi_version)
    /\ pc' = "serialized"
    /\ UNCHANGED <<abi_version, values, packed, func, header_tokens, input, internal,
                   pair, address, now, unsigned, reserve, body, fill, decoded, idVars,
                   serde_function, header_params, function_hash, checked_type,
                   token_value, declared, json_values>>

\* Tokenizer::tokenize_parameter
TokenizeParameter ==
    /\ pc = "number"
    /\ result' = tokenize_parameter(checked_type, json_values)
    /\ pc' = "numbered"
    /\ UNCHANGED <<abi_version, values, packed, func, header_tokens, input, internal,
                   pair, address, now, unsigned, reserve, body, fill, decoded, idVars,
                   serde_function, header_params, function_hash, checked_type,
                   token_value, declared, json_values>>

\* Tokenizer::tokenize_map_key_parameter
TokenizeMapKeyParameter ==
    /\ pc = "key"
    /\ result' = tokenize_map_key_parameter(checked_type, json_values)
    /\ pc' = "keyed"
    /\ UNCHANGED <<abi_version, values, packed, func, header_tokens, input, internal,
                   pair, address, now, unsigned, reserve, body, fill, decoded, idVars,
                   serde_function, header_params, function_hash, checked_type,
                   token_value, declared, json_values>>

\* Tokenizer::tokenize_optional_params
TokenizeOptionalParams ==
    /\ pc = "tokenize"
    /\ result' = tokenize_optional_params(declared, json_values)
    /\ pc' = "tokenized"
    /\ UNCHANGED <<abi_version, values, packed, func, header_tokens, input, internal,
                   pair, address, now, unsigned, reserve, body, fill, decoded, idVars,
                   serde_function, header_params, function_hash, checked_type,
                   token_value, declared, json_values>>

NextAbi ==
    FromSerde \/ GetFunctionSignature \/ IsSupported \/ TypeCheck \/ PackIntoChain
        \/ WriteToCells \/ TokenizeParameter \/ TokenizeMapKeyParameter
        \/ TokenizeOptionalParams

SpecAbi == InitAbi /\ [][NextAbi]_vars

-----------------------------------------------------------------------------
(* Function IDs.                                                            *)

\* the low 31 bits and the top bit of a u32
Low31(id) == <<id[1] % 32768, id[2]>>
TopBit(id) == id[1] \div 32768

\* the big-endian u32 of the four leading bytes of the digest
DigestId == <<function_hash[1] * 256 + function_hash[2],
              function_hash[3] * 256 + function_hash[4]>>

\* C12: when no explicit id is supplied, input_id is the function ID with its
\* top bit cleared and output_id the function ID with its top bit set, the
\* function ID being the big-endian u32 of the first four bytes of the SHA-256
\* of the signature; an explicit id is stored unchanged as both IDs.
IdAssignment ==
    pc \in {"loaded", "signature"} =>
        IF serde_function.id = None
        THEN /\ TopBit(func.input_id) = 0 /\ Low31(func.input_id) = Low31(DigestId)
             /\ TopBit(func.output_id) = 1 /\ Low31(func.output_id) = Low31(DigestId)
        ELSE /\ func.input_id = serde_function.id[1]
             /\ func.output_id = serde_function.id[1]

\* an ID computed from a digest whose top bit is set
IdAssignmentWitness ==
    /\ pc = "loaded" /\ serde_function.id = None
    /\ TopBit(DigestId) = 1
    /\ func.input_id = Low31(DigestId) /\ func.output_id = DigestId

-----------------------------------------------------------------------------
(* The canonical signature.                                                 *)

\* the strings of a sequence joined with ","
RECURSIVE CommaJoined(_)
CommaJoined(strs) ==
    IF strs = <<>> THEN ""
    ELSE IF Len(strs) = 1 THEN strs[1]
    ELSE strs[1] \o "," \o CommaJoined(Tail(strs))

\* the type signatures of a list of params
Signatures(ps) == [i \in 1..Len(ps) |-> type_signature(ps[i].kind)]

\* C13: get_function_signature returns name(<types>)(<output types>)v<major>
\* where <types> are the header type signatures followed by the input type
\* signatures under major version 1 and the input type signatures alone under
\* every other version; the header of an ABI 2.x function never appears.
CanonicalSignature ==
    pc = "signature" =>
        /\ result = func.name \o "("
                \o CommaJoined(IF abi_version[1] = 1
                               THEN Signatures(header_params) \o Signatures(func.inputs)
                               ELSE Signatures(func.inputs))
                \o ")(" \o CommaJoined(Signatures(func.outputs))
                \o ")v" \o ToString(abi_version[1])
        /\ abi_version[1] = 2 =>
                result = get_function_signature([func EXCEPT !.header = <<>>])

\* the signature of the function of the test, declared with four header params
CanonicalSignatureWitness ==
    /\ pc = "signature" /\ abi_version = ABI_VERSION_2_4
    /\ Len(header_params) = 4
    /\ result = "input_and_output(uint64,uint8[],bytes)(int16,uint8)v2"

-----------------------------------------------------------------------------
(* The function IDs on the wire: a call of the function, or of another      *)
(* function of the contract with the same params, is encoded and decoded by *)
(* the function; an answer is encoded with an answer ID and decoded.        *)

\* the output params of the functions and the answers of the contract
Outputs == <<Param("value0", TUint(16)), Param("ok", TBool)>>
Answers ==
    {<<Token("value0", VUint(300, 16)), Token("ok", VBool(TRUE))>>,
     <<Token("value0", VUint(0, 16)), Token("ok", VBool(FALSE))>>}

\* the input params and tokens of the calls
IdCases ==
    {Case(<<>>, <<>>),
     Case(<<Param("a", TUint(8))>>, <<Token("a", VUint(5, 8))>>),
     Case(<<Param("c", TCell), Param("n", TUint(16))>>,
          <<Token("c", VCell(TreeCell)), Token("n", VUint(300, 16))>>)}

\* the IDs a body may carry
WireIds(f) == {f.input_id, f.output_id, <<0, 0>>}

InitId ==
    /\ abi_version \in Versions
    /\ \E hdr \in Headers(abi_version), c \in IdCases,
          id \in {None, Some(<<291, 17767>>)} :
          /\ func = from_serde(abi_version,
                               [name |-> "f", inputs |-> c.params, outputs |-> Outputs,
                                id |-> id],
                               hdr, <<137, 171, 205, 239>>)
          /\ input = c.tokens
    /\ header_tokens = <<>>
    /\ internal \in BOOLEAN
    /\ pair = None /\ address = None /\ now \in Clocks
    /\ pc = "start"
    /\ unsigned = Unused /\ reserve = Unused /\ body = Unused /\ fill = Unused
    /\ decoded = Unused
    /\ values = Unused /\ packed = Unused
    /\ sent_id = Unused /\ answer = Unused /\ response = Unused /\ output = Unused
    /\ serde_function = Unused /\ header_params = Unused /\ function_hash = Unused
    /\ checked_type = Unused /\ token_value = Unused /\ declared = Unused
    /\ json_values = Unused /\ result = Unused

\* Function::encode_input of a function with the params of func and the ID id
EncodeCall ==
    /\ pc = "start"
    /\ \E id \in WireIds(func) :
          /\ sent_id' = id
          /\ body' = encode_input([func EXCEPT !.input_id = id], header_tokens, input,
                                  internal, pair, address, abi_version, now)
    /\ pc' = "called"
    /\ UNCHANGED <<abi_version, values, packed, func, header_tokens, input, internal,
                   pair, address, now, unsigned, reserve, fill, decoded,
                   answer, response, output, abiVars>>

\* Function::decode_input of that body
DecodeCall ==
    /\ pc = "called" /\ body.ok
    /\ decoded' = decode_input(func, body.val, internal, FALSE, abi_version)
    /\ pc' = "call_decoded"
    /\ UNCHANGED <<abi_version, values, packed, func, header_tokens, input, internal,
                   pair, address, now, unsigned, reserve, body, fill, idVars, abiVars>>

\* Function::encode_internal_output
EncodeInternalOutput ==
    /\ pc = "start"
    /\ \E answer_id \in WireIds(func), tokens \in Answers :
          /\ sent_id' = answer_id
          /\ answer' = tokens
          /\ response' = encode_internal_output(func, answer_id, tokens, abi_version)
    /\ pc' = "answered"
    /\ UNCHANGED <<abi_version, values, packed, func, header_tokens, input, internal,
                   pair, address, now, unsigned, reserve, body, fill, decoded,
                   output, abiVars>>

\* Function::decode_output
DecodeOutput ==
    /\ pc = "answered" /\ response.ok
    /\ output' = decode_output(func, response.val, abi_version)
    /\ pc' = "output"
    /\ UNCHANGED <<abi_version, values, packed, func, header_tokens, input, internal,
                   pair, address, now, unsigned, reserve, body, fill, decoded,
                   sent_id, answer, response, abiVars>>

\* Function::decode_output_partial
DecodeOutputPartial ==
    /\ pc = "answered" /\ response.ok
    /\ output' = decode_output_partial(func, response.val, abi_version)
    /\ pc' = "output_partial"
    /\ UNCHANGED <<abi_version, values, packed, func, header_tokens, input, internal,
                   pair, address, now, unsigned, reserve, body, fill, decoded,
                   sent_id, answer, response, abiVars>>

NextId ==
    EncodeCall \/ DecodeCall \/ EncodeInternalOutput \/ DecodeOutput
        \/ DecodeOutputPartial

SpecId == InitId /\ [][NextId]_vars

\* the error of an ID mismatch
WrongId(id) == [ok |-> FALSE, err |-> "WrongId", id |-> id]

\* C14: decode_input fails with WrongId carrying the ID read from the body
\* whenever that ID differs from input_id, decode_output and
\* decode_output_partial fail with WrongId whenever the leading ID differs from
\* output_id, no parameter being decoded; when the ID matches, the params are
\* decoded.
IdVerification ==
    /\ pc = "call_decoded" =>
          IF sent_id # func.input_id THEN decoded = WrongId(sent_id)
          ELSE decoded = Ok(input)
    /\ pc \in {"output", "output_partial"} =>
          IF sent_id # func.output_id THEN output = WrongId(sent_id)
          ELSE output = Ok(answer)

\* an answer carrying the input ID of the function is refused
IdVerificationWitness ==
    /\ pc = "output" /\ sent_id = func.input_id /\ sent_id # func.output_id
    /\ output = WrongId(func.input_id)

-----------------------------------------------------------------------------
(* The structural type check.                                               *)

\* MapKeyTokenValue::type_check
map_key_type_check(key, ty) ==
    CASE key.t = "Uint" /\ ty.k = "Uint" -> key.size = ty.size
      [] key.t = "Int" /\ ty.k = "Int" -> key.size = ty.size
      [] key.t = "Address" /\ ty.k = "Address" -> TRUE
      [] OTHER -> FALSE

\* tag and payload shape of the value match the type; the keys of a map are
\* matched against the key type when `keys` is set
RECURSIVE Matches(_, _, _)
Matches(val, ty, keys) ==
    CASE val.t \in {"Uint", "Int", "VarUint", "VarInt"} ->
            ty.k = val.t /\ ty.size = val.size
      [] val.t \in {"Bool", "Cell", "Address", "AddressStd", "Bytes", "String", "Token",
                    "Time", "Expire", "PublicKey"} -> ty.k = val.t
      [] val.t = "FixedBytes" -> ty.k = "FixedBytes" /\ ty.size = Len(val.arr)
      [] val.t = "Tuple" ->
            /\ ty.k = "Tuple"
            /\ Len(ty.params) = Len(val.tokens)
            /\ \A i \in 1..Len(val.tokens) :
                  /\ val.tokens[i].name = ty.params[i].name
                  /\ Matches(val.tokens[i].value, ty.params[i].kind, keys)
      [] val.t = "Array" ->
            /\ ty.k = "Array" /\ val.inner_type = ty.inner
            /\ \A i \in 1..Len(val.tokens) : Matches(val.tokens[i], ty.inner, keys)
      [] val.t = "FixedArray" ->
            /\ ty.k = "FixedArray" /\ val.inner_type = ty.inner
            /\ Len(val.tokens) = ty.size
            /\ \A i \in 1..Len(val.tokens) : Matches(val.tokens[i], ty.inner, keys)
      [] val.t = "Map" ->
            /\ ty.k = "Map" /\ val.key_type = ty.key /\ val.value_type = ty.value
            /\ \A i \in 1..Len(val.values) :
                  /\ keys => map_key_type_check(val.values[i][1], ty.key)
                  /\ Matches(val.values[i][2], ty.value, keys)
      [] val.t = "Optional" ->
            /\ ty.k = "Optional" /\ val.opt_type = ty.inner
            /\ val.opt_value # <<>> => Matches(val.opt_value[1], ty.inner, keys)
      [] val.t = "Ref" -> ty.k = "Ref" /\ Matches(val.value, ty.inner, keys)

\* C15: type_check(value, type) is true if and only if tag and payload shape
\* match exactly: integer widths, tuple arity and field names, fixed-array
\* length, fixed-bytes length, and recursively the array elements, the map keys
\* and map values, the optional and ref payloads.
StructuralTypeCheck ==
    pc = "checked" => (result <=> Matches(token_value, checked_type, TRUE))

\* the same with the keys of the maps left unmatched
StructuralTypeCheckButKeys ==
    pc = "checked" => (result <=> Matches(token_value, checked_type, FALSE))

-----------------------------------------------------------------------------
(* The integer width boundary.                                              *)

\* the magnitude of a number
Magnitude(x) == IF x < 0 THEN -x ELSE x

\* C16: writing an integer equal to +2^(n-1) or -2^(n-1) with the declared
\* width n passes the width check and yields exactly n bits; writing +2^n, or
\* any value whose magnitude needs more than n bits, fails and yields no cell.
IntegerWidthBoundary ==
    pc = "written" =>
        LET n == token_value.size
            x == token_value.number
        IN /\ Magnitude(x) = Pow2(n - 1) =>
                /\ result.ok
                /\ bits_used(result.val) = n /\ references_used(result.val) = 0
           /\ Magnitude(x) >= Pow2(n) => ~result.ok

\* int8 128 is written in 8 bits
IntegerWidthBoundaryWitness ==
    /\ pc = "written" /\ token_value = VInt(128, 8)
    /\ result.ok /\ bits_used(result.val) = 8

-----------------------------------------------------------------------------
(* Version gating.                                                          *)

\* the first version of a type
FirstVersion(ty) ==
    CASE ty.k \in {"Time", "Expire", "PublicKey"} -> ABI_VERSION_2_0
      [] ty.k \in {"String", "Optional", "VarInt", "VarUint"} -> ABI_VERSION_2_1
      [] ty.k = "Ref" -> ABI_VERSION_2_4
      [] OTHER -> ABI_VERSION_1_0

\* C17: is_supported(T, v) is true exactly when v >= 2.0 for Time, Expire and
\* PublicKey, v >= 2.1 for String, Optional, VarInt and VarUint, v >= 2.4 for
\* Ref and v >= 1.0 for every other type; a type supported in a version is
\* supported in every later version.
VersionGating ==
    pc = "gated" =>
        /\ result <=> VGe(abi_version, FirstVersion(checked_type))
        /\ result => \A w \in Versions :
                        VGe(w, abi_version) => is_supported(checked_type, w)

\* ref(T) is not supported under 2.3
VersionGatingWitness ==
    /\ pc = "gated" /\ checked_type.k = "Ref" /\ abi_version = ABI_VERSION_2_3
    /\ result = FALSE

-----------------------------------------------------------------------------
(* The optional params of the tokenizer.                                    *)

\* the names of the declared params, and the declared type of a name
DeclaredNames == {declared[i].name : i \in 1..Len(declared)}
DeclaredKind(name) ==
    declared[CHOOSE i \in 1..Len(declared) : declared[i].name = name].kind

\* the declared params present in the object, in the order of declaration
PresentParams ==
    SelectSeq(declared, LAMBDA p : p.name \in DOMAIN json_values.map)

\* the first error among the tokens of the present params, or nothing
FirstError ==
    LET bad == SelectSeq(PresentParams,
                         LAMBDA p : ~tokenize_parameter(p.kind, json_values.map[p.name]).ok)
    IN IF bad = <<>> THEN <<>>
       ELSE <<tokenize_parameter(bad[1].kind, json_values.map[bad[1].name])>>

\* the map of the declared params present in the object, each tokenized by its
\* declared type
PresentTokens ==
    [k \in DOMAIN json_values.map \cap DeclaredNames |->
        tokenize_parameter(DeclaredKind(k), json_values.map[k]).val]

\* C18: on an object, tokenize_optional_params returns the map of exactly the
\* declared params present in the object, each tokenized by its declared type,
\* omitting the absent ones without error; it fails with InvalidInputData when
\* the object holds a key that is no declared param name or when the input is
\* no object.
OptionalParams ==
    pc = "tokenized" =>
        IF json_values.j # "object" THEN result = Err("InvalidInputData")
        ELSE IF ~(DOMAIN json_values.map \subseteq DeclaredNames)
        THEN result = Err("InvalidInputData")
        ELSE IF FirstError # <<>> THEN result = FirstError[1]
        ELSE result.ok /\ DOMAIN result.val = DOMAIN PresentTokens
                /\ \A k \in DOMAIN result.val : result.val[k] = PresentTokens[k]

\* C18, amended: the token error of the first present declared param that does
\* not tokenize comes before the check of the unknown keys; an object with an
\* unknown key always fails, with InvalidInputData when every present declared
\* param tokenizes.
OptionalParamsAmended ==
    pc = "tokenized" =>
        IF json_values.j # "object" THEN result = Err("InvalidInputData")
        ELSE IF FirstError # <<>> THEN result = FirstError[1]
        ELSE IF ~(DOMAIN json_values.map \subseteq DeclaredNames)
        THEN result = Err("InvalidInputData")
        ELSE result.ok /\ DOMAIN result.val = DOMAIN PresentTokens
                /\ \A k \in DOMAIN result.val : result.val[k] = PresentTokens[k]

\* an object with an unknown key and a declared param that does not tokenize
OptionalParamsWitness ==
    /\ pc = "tokenized" /\ json_values.j = "object"
    /\ "zzz" \in DOMAIN json_values.map
    /\ FirstError # <<>>
    /\ result = FirstError[1] /\ result.err # "InvalidInputData"

-----------------------------------------------------------------------------
(* The strict reference fit, turn by turn.                                  *)

\* the sizes the loop compares: the envelopes from ABI 2.2 on, the bits and
\* references in use before
SizeBits(sv) ==
    IF VGe(abi_version, ABI_VERSION_2_2) THEN sv.max_bits ELSE bits_used(sv.data)
SizeRefs(sv) ==
    IF VGe(abi_version, ABI_VERSION_2_2) THEN sv.max_refs
    ELSE references_used(sv.data)

\* the sizes of the values from the given index on
RECURSIVE RestBits(_)
RestBits(from) ==
    IF from > Len(values) THEN 0 ELSE SizeBits(values[from]) + RestBits(from + 1)
RECURSIVE RestRefs(_)
RestRefs(from) ==
    IF from > Len(values) THEN 0 ELSE SizeRefs(values[from]) + RestRefs(from + 1)

\* a turn of the loop on a value whose references equal the free slots of the
\* current cell and whose bits fit
StrictTurn ==
    /\ pc = "loop" /\ pc' = "loop"
    /\ LET cur == packed.cells[Len(packed.cells)]
           v == values[packed.i + 1]
       IN /\ SizeRefs(v) > 0
          /\ SizeRefs(v) = ReferencesCapacity - SizeRefs(cur)
          /\ SizeBits(v) <= BitsCapacity - SizeBits(cur)

\* the value of the turn lands in the current cell
PlacedInCurrent ==
    LET n == Len(packed.cells)
        cur == packed.cells[n]
        v == values[packed.i + 1]
    IN /\ Len(packed'.cells) = n
       /\ \A j \in 1..(n - 1) : packed'.cells[j] = packed.cells[j]
       /\ BitsEq(packed'.cells[n].data.bits, cur.data.bits \o v.data.bits)
       /\ packed'.cells[n].data.refs = cur.data.refs \o v.data.refs
       /\ packed'.cells[n].max_bits = cur.max_bits + v.max_bits
       /\ packed'.cells[n].max_refs = cur.max_refs + v.max_refs

\* C19: when the next value needs vr > 0 references, vr equals the free
\* reference slots of the current cell and its bits fit, it is placed in the
\* current cell if and only if the ABI version is above 1.0, no later value
\* needs a reference and the bits of the later values fit with it in the free
\* bits; otherwise the current cell is sealed and the value starts a new cell.
\* The sizes are the envelopes for ABI >= 2.2 and the bits and references in
\* use for the earlier versions.
StrictReferenceFit ==
    [][StrictTurn =>
         LET cur == packed.cells[Len(packed.cells)]
             v == values[packed.i + 1]
         IN IF /\ ~VGe(ABI_VERSION_1_0, abi_version)
               /\ RestRefs(packed.i + 2) = 0
               /\ RestBits(packed.i + 2) + SizeBits(v) <= BitsCapacity - SizeBits(cur)
            THEN PlacedInCurrent
            ELSE packed'.cells = Append(packed.cells, v)]_vars

\* a value with references has filled the last free slots of the cell it was
\* joined to
StrictReferenceFitWitness ==
    /\ pc = "loop" /\ packed.i >= 1
    /\ LET cur == packed.cells[Len(packed.cells)]
           v == values[packed.i]
       IN /\ SizeRefs(v) > 0
          /\ SizeRefs(cur) = ReferencesCapacity
          /\ bits_used(cur.data) > bits_used(v.data)

-----------------------------------------------------------------------------
(* The linking of the chain.                                                *)

\* C20: for every ABI version and every sequence of values of at most 1023
\* bits and 3 references each, within their envelopes, every cell sealed
\* before the end of the input has at most 3 references in use, so the final
\* linking appends each successor as a reference and never panics.
LinkingNeverFails ==
    /\ pc = "loop" =>
          \A j \in 1..(Len(packed.cells) - 1) :
              references_used(packed.cells[j].data) <= ReferencesCapacity - 1
    /\ pc \in {"linked", "packed"} => packed.chain.ok

\* a chain of three cells whose sealed cells hold three references each
LinkingWitness ==
    /\ pc = "linked" /\ packed.chain.ok
    /\ Len(packed.cells.val) = 3
    /\ \A j \in 1..2 : references_used(packed.cells.val[j].data) = 3
    /\ references_used(packed.chain.val) = ReferencesCapacity

-----------------------------------------------------------------------------
(* The content of the chain.                                                *)

\* the bits and the references of the values j..k
RECURSIVE SegBits(_, _)
SegBits(j, k) == IF j > k THEN <<>> ELSE values[j].data.bits \o SegBits(j + 1, k)
RECURSIVE SegRefs(_, _)
SegRefs(j, k) == IF j > k THEN <<>> ELSE values[j].data.refs \o SegRefs(j + 1, k)

\* the references of the i-th of n cells of a chain but its continuation
PayloadRefs(chain, i, n) ==
    IF i < n THEN SubSeq(chain[i].refs, 1, Len(chain[i].refs) - 1)
    ELSE chain[i].refs

\* the payload of the cells from the i-th on
RECURSIVE ChainBits(_, _, _)
ChainBits(chain, i, n) ==
    IF i > n THEN <<>> ELSE chain[i].bits \o ChainBits(chain, i + 1, n)
RECURSIVE ChainRefs(_, _, _)
ChainRefs(chain, i, n) ==
    IF i > n THEN <<>> ELSE PayloadRefs(chain, i, n) \o ChainRefs(chain, i + 1, n)

\* the cells from the i-th on hold the values from the j-th on, each value
\* whole in one cell
RECURSIVE WholeValues(_, _, _, _)
WholeValues(chain, i, n, j) ==
    IF i > n THEN j > Len(values)
    ELSE \E k \in (j - 1)..Len(values) :
            /\ BitLen(SegBits(j, k)) = bits_used(chain[i])
            /\ BitsEq(chain[i].bits, SegBits(j, k))
            /\ PayloadRefs(chain, i, n) = SegRefs(j, k)
            /\ WholeValues(chain, i + 1, n, k + 1)

\* the chain holds the bits and the references of the values in input order,
\* no value split across two cells
ContentAndOrder ==
    LET n == Len(packed.cells.val)
        chain == ChainCells(packed.chain.val, n)
    IN /\ BitsEq(ChainBits(chain, 1, n), FlatBits(values, 1))
       /\ ChainRefs(chain, 1, n) = FlatRefs(values, 1)
       /\ WholeValues(chain, 1, n, 1)

\* the result is one cell without continuation reference
SingleCell ==
    /\ Len(packed.cells.val) = 1
    /\ references_used(packed.chain.val) = Len(FlatRefs(values, 1))

\* C21: the cells of the chain, read from the root down the continuation
\* references, hold the bits and the references of the values in input order,
\* no value is split across two cells, and when all values together fit into
\* one cell (1023 bits, 4 references) the result is a single cell with no
\* continuation reference.
ChainContent ==
    (pc = "linked" /\ packed.chain.ok) =>
        /\ ContentAndOrder
        /\ (BitLen(FlatBits(values, 1)) <= BitsCapacity
            /\ Len(FlatRefs(values, 1)) <= ReferencesCapacity) => SingleCell

\* C21 amended: as C21, the fit into one cell being measured as the loop does:
\* by the envelopes of the values from ABI 2.2 on, by their bits and references
\* before, and under ABI 1.0 with the last reference kept for the continuation.
ChainContentAmended ==
    (pc = "linked" /\ packed.chain.ok) =>
        /\ ContentAndOrder
        /\ (RestBits(1) <= BitsCapacity
            /\ RestRefs(1) <= ReferencesCapacity
                              - (IF abi_version = ABI_VERSION_1_0 THEN 1 ELSE 0))
               => SingleCell

\* C21 witness: four values laid in a chain of three cells
ChainContentWitness ==
    /\ pc = "linked" /\ packed.chain.ok
    /\ Len(values) = 4 /\ Len(packed.cells.val) = 3
    /\ bits_used(packed.chain.val) > 0
    /\ Len(FlatRefs(values, 1)) >= 2

-----------------------------------------------------------------------------
(* The envelope of a serialized value.                                      *)

\* the sums of the envelopes of the values written
RECURSIVE SumMaxBits(_, _)
SumMaxBits(vals, i) ==
    IF i > Len(vals) THEN 0 ELSE vals[i].max_bits + SumMaxBits(vals, i + 1)
RECURSIVE SumMaxRefs(_, _)
SumMaxRefs(vals, i) ==
    IF i > Len(vals) THEN 0 ELSE vals[i].max_refs + SumMaxRefs(vals, i + 1)

\* C22: each serialized value write_to_cells returns holds at most max_bits
\* bits and max_refs references, the envelopes being max_bit_size and
\* max_refs_count of the type of the value (of the types of its fields for a
\* tuple); an inlined optional holds at most 1023 bits and 4 references.
ValueEnvelope ==
    (pc = "serialized" /\ result.ok) =>
        /\ \A i \in 1..Len(result.val) :
              /\ bits_used(result.val[i].data) <= result.val[i].max_bits
              /\ references_used(result.val[i].data) <= result.val[i].max_refs
        /\ SumMaxBits(result.val, 1)
              = max_bit_size(get_param_type(token_value), abi_version)
        /\ SumMaxRefs(result.val, 1)
              = max_refs_count(get_param_type(token_value), abi_version)
        /\ token_value.t # "Tuple" => Len(result.val) = 1
        /\ token_value.t = "Optional" =>
              /\ result.val[1].max_bits <= BitsCapacity
              /\ result.val[1].max_refs <= ReferencesCapacity

\* C22 witness: an optional of a tuple of 1022 bits and 3 references, present
\* and inlined, fills its envelope of 1023 bits in bits
ValueEnvelopeWitness ==
    /\ pc = "serialized" /\ result.ok
    /\ token_value.t = "Optional" /\ token_value.opt_value # <<>>
    /\ result.val[1].max_bits = BitsCapacity
    /\ result.val[1].max_refs = 3
    /\ references_used(result.val[1].data) = 3
    /\ bits_used(result.val[1].data) > 1

-----------------------------------------------------------------------------
(* The largeness of an optional.                                            *)

\* the envelope of the inner type of the optional written
InnerBits == max_bit_size(token_value.opt_type, abi_version)
InnerRefs == max_refs_count(token_value.opt_type, abi_version)

\* the optional is written as large: the presence bit and a reference to the
\* chain of the inner value, in an envelope of 1 bit and 1 reference
WrittenLarge ==
    /\ result.val[1].max_bits = 1 /\ result.val[1].max_refs = 1
    /\ token_value.opt_value # <<>> =>
          LET inner == pack_into_chain(token_value.opt_value[1], abi_version)
          IN /\ inner.ok
             /\ BitsEq(result.val[1].data.bits, Chunk(1, 1))
             /\ result.val[1].data.refs = <<inner.val>>

\* the optional is written inline: the presence bit and then the chain of the
\* inner value, in the envelope of the inner type and one bit
WrittenInline ==
    /\ result.val[1].max_bits = 1 + InnerBits
    /\ result.val[1].max_refs = InnerRefs
    /\ token_value.opt_value # <<>> =>
          LET inner == pack_into_chain(token_value.opt_value[1], abi_version)
          IN /\ inner.ok
             /\ BitsEq(result.val[1].data.bits, Chunk(1, 1) \o inner.val.bits)
             /\ result.val[1].data.refs = inner.val.refs

\* C23: an Optional(T) is written as large if and only if
\* max_bit_size(T) + 1 >= 1023 or max_refs_count(T) + 1 > 4, and inline
\* otherwise.
OptionalLargeness ==
    (pc = "serialized" /\ result.ok /\ token_value.t = "Optional") =>
        IF InnerBits + 1 >= BitsCapacity \/ InnerRefs + 1 > ReferencesCapacity
        THEN WrittenLarge
        ELSE WrittenInline

\* C23 amended: an Optional(T) is written as large if and only if
\* max_bit_size(T) >= 1023 or max_refs_count(T) >= 4, and inline otherwise.
OptionalLargenessAmended ==
    (pc = "serialized" /\ result.ok /\ token_value.t = "Optional") =>
        IF InnerBits >= BitsCapacity \/ InnerRefs >= ReferencesCapacity
        THEN WrittenLarge
        ELSE WrittenInline

\* C23 witness: a present optional of an inner type of 1023 bits, written as
\* the presence bit and one reference
OptionalLargenessWitness ==
    /\ pc = "serialized" /\ result.ok /\ token_value.t = "Optional"
    /\ token_value.opt_value # <<>>
    /\ InnerBits = BitsCapacity /\ InnerRefs < ReferencesCapacity
    /\ bits_used(result.val[1].data) = 1
    /\ references_used(result.val[1].data) = 1

-----------------------------------------------------------------------------
(* The chain of cells of a byte string.                                     *)

\* the bytes a cell of the chain holds
CellBytes(cell) == IF cell.bits = <<>> THEN <<>> ELSE cell.bits[1].sym[1]

\* the bytes of the cells of the chain, from its root down the references
RECURSIVE ByteCells(_)
ByteCells(cell) ==
    <<CellBytes(cell)>> \o (IF cell.refs = <<>> THEN <<>> ELSE ByteCells(cell.refs[1]))

RECURSIVE JoinBytes(_, _)
JoinBytes(cells, i) ==
    IF i > Len(cells) THEN <<>> ELSE cells[i] \o JoinBytes(cells, i + 1)

\* the value written is a byte string laid in a chain of cells
WritesByteChain ==
    /\ pc = "serialized" /\ result.ok
    /\ \/ token_value.t \in {"Bytes", "String"}
       \/ token_value.t = "FixedBytes" /\ ~VGe(abi_version, ABI_VERSION_2_4)

WrittenBytes == IF token_value.t = "String" THEN token_value.str ELSE token_value.arr

\* the chain hangs from the cell of the field as its single reference, its
\* cells hold at most 127 bytes each and, read from the root, the data
ChainOfBytes ==
    LET data == result.val[1].data
        cells == ByteCells(data.refs[1])
    IN /\ bits_used(data) = 0 /\ references_used(data) = 1
       /\ \A i \in 1..Len(cells) :
             /\ Len(cells[i]) <= CellLen
             /\ bits_used(ChainCells(data.refs[1], i)[i]) = 8 * Len(cells[i])
             /\ references_used(ChainCells(data.refs[1], i)[i]) <= 1
       /\ JoinBytes(cells, 1) = WrittenBytes

\* C24: a byte string of length len is laid in a chain of cells of at most 127
\* bytes each, cut from the end of the data; the head cell of the chain holds
\* len mod 127 bytes under ABI >= 2.0 and min(127, len) bytes under ABI 1.0,
\* and the chain is the single reference of the cell of the field.
BytesChainFill ==
    WritesByteChain =>
        /\ ChainOfBytes
        /\ LET head == ByteCells(result.val[1].data.refs[1])[1]
               len == Len(WrittenBytes)
           IN Len(head) = IF abi_version = ABI_VERSION_1_0 THEN Min(CellLen, len)
                          ELSE len % CellLen

\* C24 amended: as C24, but the cells are filled the other way round: under
\* ABI >= 2.0 every cell but the last holds 127 bytes, so the head holds
\* min(127, len) bytes and the last cell the remainder; under ABI 1.0 every
\* cell but the head holds 127 bytes and the head holds the remainder.  The
\* remainder is len mod 127, or 127 when len is a positive multiple of 127.
BytesChainFillAmended ==
    WritesByteChain =>
        /\ ChainOfBytes
        /\ LET cells == ByteCells(result.val[1].data.refs[1])
               n == Len(cells)
               len == Len(WrittenBytes)
               remainder == IF len = 0 THEN 0
                            ELSE IF len % CellLen = 0 THEN CellLen
                            ELSE len % CellLen
           IN IF abi_version = ABI_VERSION_1_0
              THEN /\ \A i \in 2..n : Len(cells[i]) = CellLen
                   /\ Len(cells[1]) = remainder
              ELSE /\ \A i \in 1..(n - 1) : Len(cells[i]) = CellLen
                   /\ Len(cells[1]) = Min(CellLen, len)
                   /\ Len(cells[n]) = remainder

\* C24 witness: 300 bytes under ABI >= 2.0 in three cells of 127, 127 and 46
\* bytes
BytesChainFillWitness ==
    /\ WritesByteChain /\ abi_version # ABI_VERSION_1_0
    /\ Len(WrittenBytes) = MaxBytes
    /\ LET cells == ByteCells(result.val[1].data.refs[1])
       IN /\ Len(cells) = 3
          /\ Len(cells[1]) = CellLen
          /\ Len(cells[3]) = MaxBytes - 2 * CellLen

-----------------------------------------------------------------------------
(* The variable-length integers.                                            *)

\* ceil(log2(n))
CeilLog2(n) == CHOOSE k \in 0..8 : Pow2(k) >= n /\ \A j \in 0..(k - 1) : Pow2(j) < n

\* the bytes of the magnitude of a number, one at least
MagnitudeBytes(x) ==
    CHOOSE len \in 1..3 :
        /\ Magnitude(x) < Pow2(8 * len)
        /\ \A shorter \in 1..(len - 1) : Magnitude(x) >= Pow2(8 * shorter)

\* the bytes of the shortest two's complement of a number
SignedBytes(x) ==
    CHOOSE len \in 1..3 :
        /\ -Pow2(8 * len - 1) <= x /\ x < Pow2(8 * len - 1)
        /\ \A shorter \in 1..(len - 1) :
              ~(-Pow2(8 * shorter - 1) <= x /\ x < Pow2(8 * shorter - 1))

\* a variable-length integer has been written
WritesVarNumber == pc = "serialized" /\ token_value.t \in {"VarUint", "VarInt"}

\* the number is rejected when it needs more than size - 1 bytes, and is
\* written otherwise as the count of its len bytes and the bytes, zero as the
\* count 0 alone, within max_bit_size
VarNumberWritten(len) ==
    LET size == token_value.size
        number == token_value.number
        prefix == CeilLog2(size)
    IN IF len > size - 1 THEN result = Err("InvalidData")
       ELSE /\ result.ok
            /\ result.val[1].data.refs = <<>>
            /\ BitsEq(result.val[1].data.bits,
                      IF number = 0 THEN Chunk(prefix, 0)
                      ELSE Chunk(prefix, len) \o Chunk(8 * len, number % Pow2(8 * len)))
            /\ result.val[1].max_bits = prefix + 8 * (size - 1)
            /\ bits_used(result.val[1].data) <= result.val[1].max_bits

\* C25: a varuint<n> or varint<n> is written as a prefix of ceil(log2(n)) bits
\* holding the number of bytes of its magnitude, followed by exactly that
\* many big-endian bytes; zero is the all-zero prefix alone; a value needing
\* more than n - 1 bytes is rejected with InvalidData; the bits written never
\* exceed ceil(log2(n)) + 8 * (n - 1).
VarNumberEncoding ==
    WritesVarNumber => VarNumberWritten(MagnitudeBytes(token_value.number))

\* C25 amended: as C25, the bytes counted and written for a varint<n> being
\* those of the shortest two's complement of the number, sign bit included,
\* and those of the magnitude for a varuint<n>.
VarNumberEncodingAmended ==
    WritesVarNumber =>
        VarNumberWritten(IF token_value.t = "VarInt"
                         THEN SignedBytes(token_value.number)
                         ELSE MagnitudeBytes(token_value.number))

\* C25 witness: the varint<3> 128 takes two bytes after its prefix of 2 bits
VarNumberEncodingWitness ==
    /\ WritesVarNumber /\ result.ok
    /\ token_value = VVarInt(3, 128)
    /\ bits_used(result.val[1].data) = 18

-----------------------------------------------------------------------------
(* The bits of a written integer.                                           *)

\* the bits written are the size-bit two's complement of the number
TwosComplement ==
    /\ -Pow2(token_value.size - 1) <= token_value.number
    /\ token_value.number <= Pow2(token_value.size - 1) - 1
    /\ BitsEq(result.val.bits,
              Chunk(token_value.size, token_value.number % Pow2(token_value.size)))
    /\ SignedOf(BitsVal(result.val.bits, 0), token_value.size) = token_value.number

\* the bits written are the size-bit binary of the number
PlainBinary ==
    /\ 0 <= token_value.number
    /\ token_value.number <= Pow2(token_value.size) - 1
    /\ BitsEq(result.val.bits, Chunk(token_value.size, token_value.number))

\* C26: whenever write_int succeeds for Int{number, size}, the number lies in
\* [-2^(size-1), 2^(size-1) - 1] and the size bits written are its two's
\* complement, which read back as a signed integer give the number; whenever
\* write_uint succeeds, the number lies in [0, 2^size - 1] and the bits are its
\* binary representation.
SignedWrite ==
    (pc = "written" /\ result.ok) =>
        /\ bits_used(result.val) = token_value.size
        /\ token_value.t = "Int" => TwosComplement
        /\ token_value.t = "Uint" => PlainBinary

\* the unsigned half of C26, and the signed half for the numbers of the range
UnsignedWrite ==
    (pc = "written" /\ result.ok) =>
        /\ bits_used(result.val) = token_value.size
        /\ token_value.t = "Uint" => PlainBinary
        /\ (token_value.t = "Int"
            /\ -Pow2(token_value.size - 1) <= token_value.number
            /\ token_value.number <= Pow2(token_value.size - 1) - 1) => TwosComplement

-----------------------------------------------------------------------------
(* The range of a tokenized integer.                                        *)

\* the number read from the JSON value for the type to tokenize
NumberRead ==
    IF checked_type.k = "Int" THEN json_read_int(json_values)
    ELSE json_read_uint(json_values)

\* the range of the type to tokenize
InTypeRange(x) ==
    IF checked_type.k = "Int"
    THEN -Pow2(checked_type.size - 1) <= x /\ x <= Pow2(checked_type.size - 1) - 1
    ELSE 0 <= x /\ x <= Pow2(checked_type.size) - 1

\* C27: tokenize_int for width n accepts x exactly when
\* -2^(n-1) <= x <= 2^(n-1) - 1, tokenize_uint for width n accepts x exactly
\* when 0 <= x <= 2^n - 1, and every number that was read and is rejected fails
\* with InvalidParameterValue.
TokenizerRange ==
    (pc = "numbered" /\ NumberRead.ok) =>
        IF InTypeRange(NumberRead.val)
        THEN result = Ok([t |-> checked_type.k, number |-> NumberRead.val,
                          size |-> checked_type.size])
        ELSE result = Err("InvalidParameterValue")

\* C27 witness: -2^(n-1) is accepted for int<n>
TokenizerRangeWitness ==
    /\ pc = "numbered" /\ checked_type = TInt(8)
    /\ json_values = JString("-128")
    /\ result = Ok(VInt(-128, 8))

-----------------------------------------------------------------------------
(* The keys of a map.                                                       *)

\* the key as a value of the key type, tokenized by tokenize_int or
\* tokenize_uint
KeyAsValue == tokenize_parameter(checked_type, JString(json_values))

\* C28: for a key type Int(n) or Uint(n), tokenize_map_key_parameter accepts
\* a key string exactly when tokenize_int / tokenize_uint accept the same
\* number as a value of width n, so every accepted key is serialized in n
\* bits; key types other than the integers and Address are rejected with
\* InvalidData.
MapKeyRange ==
    pc = "keyed" =>
        IF checked_type.k \in {"Int", "Uint"}
        THEN /\ result.ok <=> KeyAsValue.ok
             /\ result.ok =>
                   /\ result.val = KeyAsValue.val
                   /\ pack_into_chain(result.val, abi_version).ok
                   /\ bits_used(pack_into_chain(result.val, abi_version).val)
                         = checked_type.size
        ELSE checked_type.k # "Address" => result = Err("InvalidData")

\* the part of C28 that holds: the keys of the range of the type are accepted,
\* every accepted key is in the range of one more bit, and the other key types
\* are rejected
MapKeyRangeWidened ==
    pc = "keyed" =>
        IF checked_type.k \in {"Int", "Uint"}
        THEN /\ KeyAsValue.ok => result = KeyAsValue
             /\ result.ok =>
                   tokenize_parameter([checked_type EXCEPT !.size = @ + 1],
                                      JString(json_values)).ok
        ELSE checked_type.k # "Address" => result = Err("InvalidData")

-----------------------------------------------------------------------------
(* The version branches of the encoder and of the decoder.                  *)

\* the decoder at the start of a body
HeaderStart(cell) ==
    [tokens |-> <<>>, id |-> <<0, 0>>, cursor |-> Cursor(Slice(cell), 0, 0)]

\* decode_header reads the function ID before the header
DecoderIdFirst(cell) ==
    LET first == HeaderIdFirst(abi_version, HeaderStart(cell))
    IN first.ok /\ first.val.cursor.used_bits = 32

\* decode_header skips a reference as the carrier of the signature
DecoderSkipsReference(cell) ==
    LET skipped == Bind(HeaderIdFirst(abi_version, HeaderStart(cell)),
                        LAMBDA st : HeaderSkipSignature(abi_version, st))
    IN skipped.ok /\ skipped.val.cursor.used_refs = 1

\* create_unsigned_call reserved a reference as the carrier of the signature
EncoderReservesReference == SignValue(abi_version, reserve).max_refs = 1

\* fill_sign put the signature into a new first reference of the body
FilledReference ==
    /\ references_used(body.val) = references_used(unsigned.val.builder) + 1
    /\ BitsEq(body.val.bits, unsigned.val.builder.bits)

\* an external call built in two steps
ExternalFilled == pc = "filled" /\ ~internal /\ body.ok

\* C29: for every ABI version of major 1 or 2, decode_header reads the
\* function ID before the header exactly when encode_header put it there, and
\* fill_sign and decode_header take the signature in a reference exactly when
\* create_unsigned_call reserved a reference for it (in-body bits otherwise).
VersionBranchAgreement ==
    ExternalFilled =>
        /\ DecoderIdFirst(body.val) <=> IdFirst(abi_version)
        /\ FilledReference <=> EncoderReservesReference
        /\ DecoderSkipsReference(body.val) <=> EncoderReservesReference

\* the same agreement over the six versions 1.0 and 2.0 to 2.4, and 2.7
RecognizedBranchAgreement ==
    abi_version # <<1, 1>> => VersionBranchAgreement

-----------------------------------------------------------------------------
(* Signing after reservation.                                               *)

\* an external call built with reserve_sign and filled with a signature
SignedAfterReservation ==
    pc \in {"filled", "signed"} /\ ~internal /\ reserve = TRUE /\ fill.signature # None

\* C30: for every external call, after create_unsigned_call with reserve_sign,
\* fill_sign with a signature of 64 bytes succeeds: under ABI >= 2.0 the root
\* cell with the block of 513 bits in front holds at most 1023 bits, and under
\* ABI 1.0 the root cell returned has a free reference, so that "No free
\* reference for signature" is never the outcome.
SigningNeverOverflows ==
    SignedAfterReservation =>
        /\ body.ok
        /\ IF abi_version # ABI_VERSION_1_0
           THEN /\ bits_used(body.val)
                      = bits_used(unsigned.val.builder) + 1 + SIGNATURE_LENGTH * 8
                /\ bits_used(body.val) <= BitsCapacity
           ELSE /\ references_free(unsigned.val.builder) >= 1
                /\ references_used(body.val) <= ReferencesCapacity

\* C30 witness: a signature filled into a root cell that it fills to the last
\* bit (ABI >= 2.0) or to the last reference (ABI 1.0)
SigningWitness ==
    /\ SignedAfterReservation /\ body.ok
    /\ IF abi_version # ABI_VERSION_1_0
       THEN bits_used(body.val) = BitsCapacity
       ELSE references_used(body.val) = ReferencesCapacity

====
